---- MODULE Spec2Model ----
(***************************************************************************)
(* InverTrack (src/App.tsx): the portfolio summary (aggregator), the       *)
(* day-by-day growth projection (projector) and the handlers that edit     *)
(* the account list.                                                       *)
(*                                                                         *)
(* Numbers.  A JavaScript number is modelled as an exact real number:      *)
(* either a rational <<numerator, denominator>> in lowest terms with a     *)
(* positive denominator, or, once Math.pow(base, 1 / 365) has entered the  *)
(* computation, an expression <<base, 365, terms>> in the 365th root of    *)
(* the base.  IEEE-754 rounding of the individual operations is not        *)
(* modelled: every statement below is a statement about the arithmetic the *)
(* code performs, in the order in which it performs it, carried out        *)
(* exactly.                                                                *)
(***************************************************************************)
EXTENDS Integers, Sequences, FiniteSets, TLC

VARIABLES
  data,            \* useState: [investments, salary, extraIncomes]   (App.tsx:33)
  nextId,          \* the next identifier crypto.randomUUID() hands out
  summary,         \* useMemo: PortfolioSummary                       (App.tsx:74)
  projectionDays,  \* useState: the horizon                           (App.tsx:67)
  startDate,       \* new Date() read by the projection               (App.tsx:97)
  dailyRate,       \* const dailyRate                                 (App.tsx:93)
  pc,              \* position of the projection: "loop" or "done"
  i,               \* loop counter                                    (App.tsx:99)
  currentCapital,  \* let currentCapital                              (App.tsx:92)
  results,         \* const results = []                              (App.tsx:91)
  dailyProjection, \* useMemo: the value the loop returned            (App.tsx:90)
  single,          \* the single-portfolio projector: [dailyRate, currentCapital,
                   \* data, i, pc]                                (part_001:49)
  aiAnalysis,      \* useState: null (<<>>) or a text (<<text>>)      (App.tsx:65)
  isAnalyzing,     \* useState                                       (App.tsx:66)
  rendered,        \* what the last render committed: the isAnalyzing the
                   \* button and the analyzeWithAI closure see    (App.tsx:183, 537)
  requests,        \* the generateContent calls awaited             (App.tsx:203)
  storage,         \* localStorage under STORAGE_KEY                  (App.tsx:24)
  effectPending,   \* the persistence effect of the first render has not run yet
  status,          \* "mounted", or "crashed" once a render has thrown
  updates          \* the state updates dispatched so far, pending or processed

vars == <<data, nextId, summary, projectionDays, startDate, dailyRate,
          pc, i, currentCapital, results, dailyProjection, single,
          aiAnalysis, isAnalyzing, rendered, requests,
          storage, effectPending, status, updates>>

singleVars == <<single>>

aiVars == <<aiAnalysis, isAnalyzing, rendered, requests>>

storeVars == <<storage, effectPending, status>>

projVars == <<projectionDays, startDate, dailyRate, pc, i, currentCapital,
              results, dailyProjection>>

----------------------------------------------------------------------------
(* Bounds of the model. *)

MaxAccounts == 3

MaxAdds == 3

MaxHorizon == 3

MaxExtras == 2

MaxRequests == 2

MaxBatch == 2

----------------------------------------------------------------------------
(* JavaScript numbers as exact rationals. *)

Abs(x) == IF x < 0 THEN -x ELSE x

RECURSIVE GCD(_, _)
GCD(a, b) == IF b = 0 THEN a ELSE GCD(b, a % b)

Sign(x) == IF x < 0 THEN -1 ELSE IF x > 0 THEN 1 ELSE 0

\* The rational n/d in lowest terms, sign carried by the numerator.  A zero
\* denominator is JavaScript's result of dividing by zero: <<1, 0>> is
\* Infinity, <<-1, 0>> is -Infinity and <<0, 0>> is NaN.
Rat(n, d) ==
  IF d = 0 THEN <<Sign(n), 0>>
  ELSE LET g == GCD(Abs(n), Abs(d))
           s == IF d < 0 THEN -1 ELSE 1
       IN  <<(s * n) \div g, Abs(d) \div g>>

Num(n) == <<n, 1>>

Zero == Num(0)

\* The operations on rationals.  Common factors are taken out before the
\* products are formed, which keeps the intermediate integers small; the
\* values are those of (a1 b2 + b1 a2) / (a2 b2), (a1 b1) / (a2 b2) and
\* (a1 b2) / (a2 b1).
CommonFactor(m, n) == IF m = 0 \/ n = 0 THEN 1 ELSE GCD(Abs(m), Abs(n))

QAdd(a, b) ==
  LET g == CommonFactor(a[2], b[2])
  IN  Rat(a[1] * (b[2] \div g) + b[1] * (a[2] \div g), (a[2] \div g) * b[2])

QMul(a, b) ==
  LET g == CommonFactor(a[1], b[2])
      h == CommonFactor(b[1], a[2])
  IN  Rat((a[1] \div g) * (b[1] \div h), (a[2] \div h) * (b[2] \div g))

QDiv(a, b) == QMul(a, <<b[2], b[1]>>)

\* A root expression <<base, degree, terms>> is the number
\*   sum over <<c, e>> in terms of c x root^e,   root = base^(1 / degree),
\* with the terms in increasing order of e, 0 <= e < degree, every c a
\* non-zero rational, and not a single term at e = 0 (that is a rational).
\* For the bases that occur x^degree - base is irreducible over the
\* rationals, so two such expressions are the same number exactly when they
\* are the same expression.
TermsOf(a) ==
  IF Len(a) = 3 THEN a[3] ELSE IF a = Zero THEN <<>> ELSE <<<<a, 0>>>>

RECURSIVE AddTerms(_, _)
AddTerms(s, t) ==
  IF s = <<>> THEN t
  ELSE IF t = <<>> THEN s
  ELSE IF Head(s)[2] < Head(t)[2] THEN <<Head(s)>> \o AddTerms(Tail(s), t)
  ELSE IF Head(t)[2] < Head(s)[2] THEN <<Head(t)>> \o AddTerms(s, Tail(t))
  ELSE LET c == QAdd(Head(s)[1], Head(t)[1])
           rest == AddTerms(Tail(s), Tail(t))
       IN  IF c = Zero THEN rest ELSE <<<<c, Head(s)[2]>>>> \o rest

\* c1 x root^e1 times c2 x root^e2, with root^degree = base.
TermProduct(u, v, base, degree) ==
  IF u[2] + v[2] >= degree
  THEN <<QMul(QMul(u[1], v[1]), base), u[2] + v[2] - degree>>
  ELSE <<QMul(u[1], v[1]), u[2] + v[2]>>

RECURSIVE ScaleTerms(_, _, _, _)
ScaleTerms(u, t, base, degree) ==
  IF t = <<>> THEN <<>>
  ELSE AddTerms(<<TermProduct(u, Head(t), base, degree)>>,
                ScaleTerms(u, Tail(t), base, degree))

RECURSIVE MulTerms(_, _, _, _)
MulTerms(s, t, base, degree) ==
  IF s = <<>> THEN <<>>
  ELSE AddTerms(ScaleTerms(Head(s), t, base, degree),
                MulTerms(Tail(s), t, base, degree))

RootExpr(base, degree, terms) ==
  IF terms = <<>> THEN Zero
  ELSE IF Len(terms) = 1 /\ terms[1][2] = 0 THEN terms[1][1]
  ELSE <<base, degree, terms>>

\* a + b
RAdd(a, b) ==
  IF Len(a) = 2 /\ Len(b) = 2 THEN QAdd(a, b)
  ELSE LET r == IF Len(a) = 3 THEN a ELSE b
       IN  RootExpr(r[1], r[2], AddTerms(TermsOf(a), TermsOf(b)))

\* a * b
RMul(a, b) ==
  IF Len(a) = 2 /\ Len(b) = 2 THEN QMul(a, b)
  ELSE LET r == IF Len(a) = 3 THEN a ELSE b
       IN  RootExpr(r[1], r[2], MulTerms(TermsOf(a), TermsOf(b), r[1], r[2]))

\* a / b, the divisor a rational.
RDiv(a, b) ==
  IF Len(a) = 2 THEN QDiv(a, b) ELSE RMul(a, QDiv(Num(1), b))

RLt(a, b) == a[1] * b[2] < b[1] * a[2]

RLe(a, b) == a[1] * b[2] <= b[1] * a[2]

RGt(a, b) == RLt(b, a)

\* Array.prototype.reduce((sum, x) => sum + x, init) over the terms, in list
\* order: a left fold.
RECURSIVE Reduce(_, _)
Reduce(terms, init) ==
  IF terms = <<>> THEN init
  ELSE Reduce(Tail(terms), RAdd(init, Head(terms)))

----------------------------------------------------------------------------
(* The aggregator: useMemo summary. *)

InvAmount(inv) == inv.amount

InvWeighted(inv) == RMul(inv.amount, inv.annualYield)

\* A total that drops the negative amounts.
TotalAmountClamped(investments) ==
  Reduce([k \in 1..Len(investments) |->
            IF RLt(investments[k].amount, Zero) THEN Zero
            ELSE investments[k].amount], Zero)

TotalAmount(investments) ==
  Reduce([k \in 1..Len(investments) |-> InvAmount(investments[k])], Zero)

\* A weighted sum that forgets the weights.
WeightedSumUnweighted(investments) ==
  Reduce([k \in 1..Len(investments) |-> investments[k].annualYield], Zero)

WeightedSum(investments) ==
  Reduce([k \in 1..Len(investments) |-> InvWeighted(investments[k])], Zero)

\* The guard written as "totalAmount >= 0".
WeightedAverageYieldGuardGe(totalAmount, weightedSum) ==
  IF RLe(Zero, totalAmount) THEN RDiv(weightedSum, totalAmount) ELSE Zero

\* The guard written as "totalAmount !== 0".
WeightedAverageYieldNonZero(totalAmount, weightedSum) ==
  IF totalAmount # Zero THEN RDiv(weightedSum, totalAmount) ELSE Zero

WeightedAverageYield(totalAmount, weightedSum) ==
  IF RGt(totalAmount, Zero) THEN RDiv(weightedSum, totalAmount) ELSE Zero

\* The yield taken as a fraction already (no division by 100).
MonthlyIncomeNoPercent(totalAmount, weightedAverageYield) ==
  RDiv(RMul(totalAmount, weightedAverageYield), Num(12))

MonthlyIncome(totalAmount, weightedAverageYield) ==
  RDiv(RMul(totalAmount, RDiv(weightedAverageYield, Num(100))), Num(12))

Summary(investments) ==
  LET totalAmount == TotalAmount(investments)
      weightedSum == WeightedSum(investments)
      weightedAverageYield == WeightedAverageYield(totalAmount, weightedSum)
      monthlyIncome == MonthlyIncome(totalAmount, weightedAverageYield)
  IN  [totalAmount |-> totalAmount,
       weightedAverageYield |-> weightedAverageYield,
       monthlyIncome |-> monthlyIncome]

----------------------------------------------------------------------------
(* localStorage and JSON.  A stored item is absent (getItem returns null), *)
(* a string that is not JSON text, or the JSON text of a value.  Values    *)
(* are tagged with their JavaScript type.                                  *)

NoItem == [kind |-> "null"]

NotJson(text) == [kind |-> "text", text |-> text]

JsonText(value) == [kind |-> "json", value |-> value]

Undefined == [type |-> "undefined"]

JNull == [type |-> "null"]

JNumber(x) == [type |-> "number", value |-> x]

JString(x) == [type |-> "string", value |-> x]

JArray(items) == [type |-> "array", items |-> items]

JObject(fields) == [type |-> "object", fields |-> fields]

\* JSON.stringify of a number: a number that is not finite is written null.
StringifyNumber(x) == IF x[2] > 0 THEN JNumber(x) ELSE JNull

StringifyInvestment(inv) ==
  JObject([id |-> JString(inv.id), name |-> JString(inv.name),
           amount |-> StringifyNumber(inv.amount),
           annualYield |-> StringifyNumber(inv.annualYield)])

StringifyExtraIncome(extra) ==
  JObject([id |-> JString(extra.id), description |-> JString(extra.description),
           amount |-> StringifyNumber(extra.amount), date |-> JString(extra.date)])

\* JSON.stringify(data)
JSONStringify(d) ==
  JsonText(JObject(
    [investments |-> JArray([k \in 1..Len(d.investments) |->
                               StringifyInvestment(d.investments[k])]),
     salary |-> StringifyNumber(d.salary),
     extraIncomes |-> JArray([k \in 1..Len(d.extraIncomes) |->
                                StringifyExtraIncome(d.extraIncomes[k])])]))

\* The effect that never runs again after the first render (dependencies []).
PersistedOnMountOnly(stored, d) == stored

\* useEffect(() => localStorage.setItem(STORAGE_KEY, JSON.stringify(data)),
\* [data]): what the key holds once the effect of a render with state d has
\* run.  Every setData makes a new object, so the effect runs after every
\* handler; React runs the effects of a render caused by an input event
\* before it handles the next event.
Persisted(stored, d) == JSONStringify(d)

----------------------------------------------------------------------------
(* The account handlers.  Each setData is followed by the render that      *)
(* recomputes the memoized summary from the new account list and by the    *)
(* persistence effect of that render.                                      *)

\* What the amount and yield inputs can deliver: parseFloat(value) || 0.
Amounts == {Num(-1), Zero, Rat(1, 2)}

Yields == {Zero, Num(100)}

Names == {"", "Nu"}

\* The clock before any projection has read it.
NoInstant ==
  [date |-> [year |-> 2025, month |-> 1, day |-> 13], hour |-> 10, utcOffset |-> -6]

\* The update that also sets the amount of the account back to 0.
SetFieldAndResetAmount(inv, field, value) ==
  [id |-> inv.id,
   name |-> IF field = "name" THEN value ELSE inv.name,
   amount |-> IF field = "amount" THEN value ELSE Zero,
   annualYield |-> IF field = "annualYield" THEN value ELSE inv.annualYield]

SetField(inv, field, value) ==
  CASE field = "name" -> [inv EXCEPT !.name = value]
    [] field = "amount" -> [inv EXCEPT !.amount = value]
    [] field = "annualYield" -> [inv EXCEPT !.annualYield = value]

FieldValues(field) ==
  CASE field = "name" -> Names
    [] field = "amount" -> Amounts
    [] field = "annualYield" -> Yields

\* No analysis asked for yet.
AIIdle ==
  /\ aiAnalysis = <<>>
  /\ isAnalyzing = FALSE
  /\ rendered = [isAnalyzing |-> FALSE]
  /\ requests = <<>>

\* The application running with its state saved.
Saved ==
  /\ storage = JSONStringify(data)
  /\ effectPending = FALSE
  /\ status = "mounted"

\* The single-portfolio projector before it has run.
SingleIdle ==
  [dailyRate |-> Zero, currentCapital |-> Zero, data |-> <<>>, i |-> 0,
   pc |-> "done"]

addInvestment ==
  /\ status = "mounted"
  /\ Len(data.investments) < MaxAccounts
  /\ nextId <= MaxAdds
  /\ data' = [data EXCEPT !.investments =
                Append(@, [id |-> nextId, name |-> "", amount |-> Zero,
                           annualYield |-> Zero])]
  /\ nextId' = nextId + 1
  /\ summary' = Summary(data'.investments)
  /\ storage' = Persisted(storage, data')
  /\ effectPending' = FALSE
  /\ UNCHANGED <<projVars, singleVars, updates, aiVars, status>>

\* The fields an account row lets the user edit.
AccountFields == {"name", "amount", "annualYield"}

\* updateInvestment(id, field, value), called by the inputs of the row of an
\* account that is shown.
UpdateInvestment(id, field, value) ==
  LET upd(inv) == IF inv.id = id THEN SetField(inv, field, value) ELSE inv
  IN  /\ status = "mounted"
      /\ \E k \in 1..Len(data.investments) : data.investments[k].id = id
      /\ data' = [data EXCEPT !.investments =
                    [k \in 1..Len(@) |-> upd(@[k])]]
      /\ summary' = Summary(data'.investments)
      /\ storage' = Persisted(storage, data')
      /\ effectPending' = FALSE
      /\ UNCHANGED <<nextId, projVars, singleVars, updates, aiVars, status>>

updateInvestment ==
  \E id \in 1..MaxAdds, field \in AccountFields :
    \E value \in FieldValues(field) : UpdateInvestment(id, field, value)

\* The removal that builds the new state without the salary of the old one.
RemoveInvestmentResettingSalary(id) ==
  LET keep(inv) == inv.id # id
  IN  /\ status = "mounted"
      /\ \E k \in 1..Len(data.investments) : data.investments[k].id = id
      /\ data' = [investments |-> SelectSeq(data.investments, keep),
                  salary |-> Zero, extraIncomes |-> data.extraIncomes]
      /\ summary' = Summary(data'.investments)
      /\ storage' = Persisted(storage, data')
      /\ effectPending' = FALSE
      /\ UNCHANGED <<nextId, projVars, singleVars, updates, aiVars, status>>

\* The remove button of the row of account id.
RemoveInvestment(id) ==
  LET keep(inv) == inv.id # id
  IN  /\ status = "mounted"
      /\ \E k \in 1..Len(data.investments) : data.investments[k].id = id
      /\ data' = [data EXCEPT !.investments = SelectSeq(@, keep)]
      /\ summary' = Summary(data'.investments)
      /\ storage' = Persisted(storage, data')
      /\ effectPending' = FALSE
      /\ UNCHANGED <<nextId, projVars, singleVars, updates, aiVars, status>>

removeInvestment == \E id \in 1..MaxAdds : RemoveInvestment(id)

InitAccounts ==
  /\ data = [investments |-> <<>>, salary |-> Zero, extraIncomes |-> <<>>]
  /\ nextId = 1
  /\ summary = Summary(data.investments)
  /\ projectionDays = 0
  /\ startDate = NoInstant
  /\ dailyRate = Zero
  /\ pc = "done"
  /\ i = 0
  /\ currentCapital = Zero
  /\ results = <<>>
  /\ dailyProjection = <<>>
  /\ single = SingleIdle
  /\ AIIdle
  /\ updates = <<>>
  /\ Saved

NextAccounts == addInvestment \/ updateInvestment \/ removeInvestment

SpecAccounts == InitAccounts /\ [][NextAccounts]_vars

----------------------------------------------------------------------------
(* The calendar of the Date object. *)

IsLeapYear(y) == (y % 4 = 0 /\ y % 100 # 0) \/ y % 400 = 0

DaysInMonth(y, m) ==
  IF m = 2 THEN (IF IsLeapYear(y) THEN 29 ELSE 28)
  ELSE IF m \in {4, 6, 9, 11} THEN 30 ELSE 31

\* new Date(year, month, day) and setDate(day): a month past December, a day
\* below 1 or past the end of the month carry into the neighbouring month.
\* Months count from 1 here (getMonth() counts from 0).
RECURSIVE MakeDate(_, _, _)
MakeDate(y, m, d) ==
  IF m > 12 THEN MakeDate(y + 1, m - 12, d)
  ELSE IF d < 1
       THEN LET pm == IF m = 1 THEN 12 ELSE m - 1
                py == IF m = 1 THEN y - 1 ELSE y
            IN  MakeDate(py, pm, d + DaysInMonth(py, pm))
       ELSE IF d > DaysInMonth(y, m)
            THEN MakeDate(y, m + 1, d - DaysInMonth(y, m))
            ELSE [year |-> y, month |-> m, day |-> d]

\* const currentDate = new Date(startDate);
\* currentDate.setDate(startDate.getDate() + i + 1): local calendar arithmetic,
\* the local time of day is kept.
CurrentDate(start, n) ==
  MakeDate(start.date.year, start.date.month, start.date.day + n + 1)

\* The length of the month before: getMonth() passed without the "+ 1".
MonthDaysOfPreviousMonth(currentDate) ==
  MakeDate(currentDate.year, currentDate.month, 0).day

\* new Date(currentDate.getFullYear(), currentDate.getMonth() + 1, 0).getDate()
MonthDays(currentDate) ==
  MakeDate(currentDate.year, currentDate.month + 1, 0).day

\* toISOString().split('T')[0]: the calendar date of the instant in UTC, as
\* the text YYYY-MM-DD (here the triple of its fields).  The instant is
\* currentDate at the local hour of the start; UTC is local time minus the
\* offset, which moves the date by -1, 0 or 1 days.
IsoDate(currentDate, start) ==
  LET shift == (start.hour - start.utcOffset) \div 24
      utc == MakeDate(currentDate.year, currentDate.month, currentDate.day + shift)
  IN  <<utc.year, utc.month, utc.day>>

MonthShort ==
  <<"ene", "feb", "mar", "abr", "may", "jun",
    "jul", "ago", "sep", "oct", "nov", "dic">>

\* dateFormatter.format(currentDate): day, short month, year of the local date.
FormatDate(currentDate) ==
  <<currentDate.day, MonthShort[currentDate.month], currentDate.year>>

\* formatCurrency: the amount rounded to whole cents, halves away from zero
\* (the currency text is determined by the number of cents).
FormatCurrency(val) ==
  Sign(val[1]) * ((2 * 100 * Abs(val[1]) + val[2]) \div (2 * val[2]))

----------------------------------------------------------------------------
(* The projector: useMemo dailyProjection. *)

\* Math.pow(base, 1 / degree): 1 for base 1, 0 for base 0, NaN for a negative
\* base (no real root is returned for a fractional exponent), and otherwise
\* the positive root of the base, carried as a root expression.
MathPow(base, degree) ==
  IF base = Num(1) THEN Num(1)
  ELSE IF base = Zero THEN Zero
  ELSE IF RLt(base, Zero) THEN <<0, 0>>
  ELSE <<base, degree, <<<<Num(1), 1>>>>>>

\* The exponent taken over a year of 360 days.
MathPow360thRoot(base) == MathPow(base, 360)

\* Math.pow(base, 1 / 365)
MathPow365thRoot(base) == MathPow(base, 365)

\* The rate with the guard and the "- 1" left out.
DailyRateNoMinusOne(weightedAverageYield) ==
  MathPow365thRoot(RAdd(Num(1), RDiv(weightedAverageYield, Num(100))))

DailyRate(weightedAverageYield) ==
  IF RGt(weightedAverageYield, Zero)
  THEN RAdd(MathPow365thRoot(RAdd(Num(1), RDiv(weightedAverageYield, Num(100)))),
            Num(-1))
  ELSE Zero

\* Pay days taken as the 15th and the 30th.
IsSalaryDayFixed30(currentDate) ==
  currentDate.day = 15 \/ currentDate.day = 30

\* The test that takes the 15th only in months of more than 28 days.
IsSalaryDaySkipping15thOfShortMonth(currentDate) ==
  \/ currentDate.day = 15 /\ MonthDays(currentDate) > 28
  \/ currentDate.day = MonthDays(currentDate)

IsSalaryDay(currentDate) ==
  currentDate.day = 15 \/ currentDate.day = MonthDays(currentDate)

\* if (dayOfMonth === 15 || dayOfMonth === monthDays) { ... }
\* The salary step that records the label only for a salary that is not 0.
AfterSalaryLabelIfNotZero(currentDate, salary) ==
  IF IsSalaryDay(currentDate) /\ salary # Zero
  THEN [incomeToday |-> RAdd(Zero, salary),
        events |-> <<<<"Quincena", FormatCurrency(salary)>>>>]
  ELSE [incomeToday |-> Zero, events |-> <<>>]

AfterSalary(currentDate, salary) ==
  IF IsSalaryDay(currentDate)
  THEN [incomeToday |-> RAdd(Zero, salary),
        events |-> <<<<"Quincena", FormatCurrency(salary)>>>>]
  ELSE [incomeToday |-> Zero, events |-> <<>>]

ExtraLabel(extra) ==
  <<IF extra.description = "" THEN "Ingreso Extra" ELSE extra.description,
    FormatCurrency(extra.amount)>>

\* data.extraIncomes.forEach(extra => { if (extra.date === isoDate) ... })
RECURSIVE ForEachExtra(_, _, _)
ForEachExtra(extraIncomes, isoDate, acc) ==
  IF extraIncomes = <<>> THEN acc
  ELSE LET extra == Head(extraIncomes)
           next == IF extra.date = isoDate
                   THEN [incomeToday |-> RAdd(acc.incomeToday, extra.amount),
                         events |-> Append(acc.events, ExtraLabel(extra))]
                   ELSE acc
       IN  ForEachExtra(Tail(extraIncomes), isoDate, next)

\* The interest taken as the grown capital, capital x (1 + rate).
DailyEarnedGrowthFactor(capital, rate) == RMul(capital, RAdd(Num(1), rate))

DailyEarned(capital, rate) == RMul(capital, rate)

\* The interest computed before the day's income is added.
LoopBodyInterestFirst(n, capital, rate, start, salary, extraIncomes) ==
  LET currentDate == CurrentDate(start, n)
      day == ForEachExtra(extraIncomes, IsoDate(currentDate, start),
                          AfterSalary(currentDate, salary))
      dailyEarned == DailyEarned(capital, rate)
      total == RAdd(RAdd(capital, dailyEarned), day.incomeToday)
  IN  [day |-> n + 1, date |-> FormatDate(currentDate), earned |-> dailyEarned,
       income |-> day.incomeToday, events |-> day.events, total |-> total]

\* One pass of the loop body for counter n: the entry pushed to results; its
\* total is the new currentCapital.
\* The body whose total leaves the day's income out of the capital carried on.
LoopBodyIncomeNotKept(n, capital, rate, start, salary, extraIncomes) ==
  LET currentDate == CurrentDate(start, n)
      day == ForEachExtra(extraIncomes, IsoDate(currentDate, start),
                          AfterSalary(currentDate, salary))
      dailyEarned == DailyEarned(RAdd(capital, day.incomeToday), rate)
  IN  [day |-> n + 1, date |-> FormatDate(currentDate), earned |-> dailyEarned,
       income |-> day.incomeToday, events |-> day.events,
       total |-> RAdd(capital, dailyEarned)]

LoopBody(n, capital, rate, start, salary, extraIncomes) ==
  LET currentDate == CurrentDate(start, n)
      day == ForEachExtra(extraIncomes, IsoDate(currentDate, start),
                          AfterSalary(currentDate, salary))
      withIncome == RAdd(capital, day.incomeToday)
      dailyEarned == DailyEarned(withIncome, rate)
  IN  [day |-> n + 1, date |-> FormatDate(currentDate), earned |-> dailyEarned,
       income |-> day.incomeToday, events |-> day.events,
       total |-> RAdd(withIncome, dailyEarned)]

\* The loop test written "i <= projectionDays".
LoopContinuesInclusive(n, horizon) == n <= horizon

\* for (let i = 0; i < projectionDays; i++)
LoopContinues(n, horizon) == n < horizon

LoopIteration ==
  /\ pc = "loop"
  /\ LoopContinues(i, projectionDays)
  /\ LET entry == LoopBody(i, currentCapital, dailyRate, startDate,
                           data.salary, data.extraIncomes)
     IN  /\ results' = Append(results, entry)
         /\ currentCapital' = entry.total
  /\ i' = i + 1
  /\ UNCHANGED <<data, nextId, summary, projectionDays, startDate, dailyRate,
                 pc, dailyProjection, singleVars, updates, aiVars, storeVars>>

\* return results
LoopExit ==
  /\ pc = "loop"
  /\ ~LoopContinues(i, projectionDays)
  /\ pc' = "done"
  /\ dailyProjection' = results
  /\ UNCHANGED <<data, nextId, summary, projectionDays, startDate, dailyRate,
                 i, currentCapital, results, singleVars, updates, aiVars, storeVars>>

(* The inputs of the projection. *)

Account(amount, annualYield) ==
  [id |-> 1, name |-> "Nu", amount |-> amount, annualYield |-> annualYield]

ProjectionPortfolios ==
  {<<>>,
   <<Account(Num(4), Num(100))>>,
   <<Account(Num(4), Zero)>>,
   <<Account(Num(4), Num(-50))>>,
   <<Account(Num(-4), Num(100))>>}

Salaries == {Zero, Num(10)}

Instant(y, m, d, hour, utcOffset) ==
  [date |-> [year |-> y, month |-> m, day |-> d],
   hour |-> hour, utcOffset |-> utcOffset]

\* Local date, local hour and offset of local time from UTC at the moment
\* the projection runs.
StartInstants ==
  {Instant(2025, 1, 13, 10, -6),
   Instant(2025, 1, 13, 20, -6),
   Instant(2024, 2, 27, 20, -6),
   Instant(2023, 2, 26, 10, -6),
   Instant(2025, 4, 28, 3, 9),
   Instant(2024, 12, 29, 10, 0),
   Instant(2100, 2, 26, 12, 1)}

IsoOf(date) == <<date.year, date.month, date.day>>

\* The dates an extra income carries here: the start date and the two days
\* after it.
ExtraDates(start) ==
  {IsoOf(MakeDate(start.date.year, start.date.month, start.date.day + k)) :
     k \in 0..2}

ExtraKinds ==
  {[description |-> "Bono", amount |-> Num(5)],
   [description |-> "", amount |-> Num(7)]}

ExtraIncomeLists(start) ==
  UNION {[1..n -> {[id |-> 0, description |-> e.description,
                    amount |-> e.amount, date |-> d] :
                     e \in ExtraKinds, d \in ExtraDates(start)}] :
           n \in 0..MaxExtras}

InitProjection ==
  /\ startDate \in StartInstants
  /\ \E investments \in ProjectionPortfolios, salary \in Salaries,
        extraIncomes \in ExtraIncomeLists(startDate) :
       data = [investments |-> investments, salary |-> salary,
               extraIncomes |-> [k \in 1..Len(extraIncomes) |->
                                   [extraIncomes[k] EXCEPT !.id = k]]]
  /\ nextId = 1
  /\ summary = Summary(data.investments)
  /\ projectionDays \in 0..MaxHorizon
  /\ dailyRate = DailyRate(summary.weightedAverageYield)
  /\ currentCapital = summary.totalAmount
  /\ results = <<>>
  /\ i = 0
  /\ pc = "loop"
  /\ dailyProjection = <<>>
  /\ single = SingleIdle
  /\ AIIdle
  /\ updates = <<>>
  /\ Saved

NextProjection == LoopIteration \/ LoopExit

SpecProjection == InitProjection /\ [][NextProjection]_vars

(* The projection over a month: every start date of some months of 31 days, *)
(* a salary of 1000, no extra incomes, horizons of 30 and 31 days.          *)

ScenarioMonths == {<<2025, 1>>, <<2024, 1>>, <<2025, 3>>, <<2025, 7>>, <<2025, 12>>}

ScenarioStarts ==
  {Instant(ym[1], ym[2], d, 10, -6) : ym \in ScenarioMonths, d \in 1..31}

ScenarioPortfolios ==
  {<<>>, <<Account(Zero, Num(100))>>, <<Account(Num(4), Zero)>>}

ScenarioHorizons == {30, 31}

InitScenario ==
  /\ startDate \in ScenarioStarts
  /\ \E investments \in ScenarioPortfolios :
       data = [investments |-> investments, salary |-> Num(1000),
               extraIncomes |-> <<>>]
  /\ nextId = 1
  /\ summary = Summary(data.investments)
  /\ projectionDays \in ScenarioHorizons
  /\ dailyRate = DailyRate(summary.weightedAverageYield)
  /\ currentCapital = summary.totalAmount
  /\ results = <<>>
  /\ i = 0
  /\ pc = "loop"
  /\ dailyProjection = <<>>
  /\ single = SingleIdle
  /\ AIIdle
  /\ updates = <<>>
  /\ Saved

SpecScenario == InitScenario /\ [][NextProjection]_vars

(* The projection over the horizons the selector offers, up to a year. *)

\* <option value={15}> ... <option value={365}>
HorizonOptions == {15, 30, 90, 180, 365}

YearStarts == {Instant(2025, 1, 13, 10, -6), Instant(2024, 2, 27, 20, -6)}

YearPortfolios ==
  {<<>>,
   <<Account(Num(1000), Num(12))>>,
   <<Account(Num(4), Num(100))>>,
   <<Account(Num(4), Zero)>>,
   <<Account(Num(4), Num(-50))>>}

YearSalaries == {Zero, Num(1000)}

InitYear ==
  /\ startDate \in YearStarts
  /\ \E investments \in YearPortfolios, salary \in YearSalaries :
       data = [investments |-> investments, salary |-> salary,
               extraIncomes |-> <<>>]
  /\ nextId = 1
  /\ summary = Summary(data.investments)
  /\ projectionDays \in HorizonOptions
  /\ dailyRate = DailyRate(summary.weightedAverageYield)
  /\ currentCapital = summary.totalAmount
  /\ results = <<>>
  /\ i = 0
  /\ pc = "loop"
  /\ dailyProjection = <<>>
  /\ single = SingleIdle
  /\ AIIdle
  /\ updates = <<>>
  /\ Saved

SpecYear == InitYear /\ [][NextProjection]_vars

----------------------------------------------------------------------------
(* The AI analysis.  A click on the button runs analyzeWithAI up to its     *)
(* await; the state updates of a click handler are rendered before the      *)
(* browser delivers the next event, so the click and its render are one     *)
(* step.  The updates made when the awaited call has settled are rendered   *)
(* in a later step.                                                         *)

ErrorMessage == "Error al conectar con la IA."

NoAnalysisMessage == "No se pudo generar el análisis."

\* response.text: undefined (<<>>), the empty text or a text.
ResponseTexts == {<<>>, <<"">>, <<"Resumen de la estrategia">>}

\* disabled={isAnalyzing}
ButtonDisabled(isAnalyzingSeen) == isAnalyzingSeen

\* if (isAnalyzing) return;
AlreadyAnalyzing(isAnalyzingSeen) == isAnalyzingSeen

\* The flag left as it was: setIsAnalyzing(true) forgotten.
BeginAnalysisForgotten(flag) == flag

\* setIsAnalyzing(true)
BeginAnalysis(flag) == TRUE

\* The text shown as it came: the "|| 'No se pudo ...'" left out.
OnFulfilledNoFallback(text) == text

\* setAiAnalysis(response.text || 'No se pudo generar el análisis.')
OnFulfilled(text) ==
  IF text = <<>> \/ text = <<"">> THEN <<NoAnalysisMessage>> ELSE text

\* catch: setAiAnalysis("Error al conectar con la IA.")
OnRejected == <<ErrorMessage>>

Remove(s, k) == SubSeq(s, 1, k - 1) \o SubSeq(s, k + 1, Len(s))

\* onClick={analyzeWithAI}.  thrown: something between try and await throws
\* (the client's constructor, building the prompt); catch and finally then
\* run in the same step.
analyzeWithAI ==
  /\ status = "mounted"
  /\ ~ButtonDisabled(rendered.isAnalyzing)
  /\ Len(requests) < MaxRequests
  /\ IF AlreadyAnalyzing(rendered.isAnalyzing)
     THEN UNCHANGED aiVars
     ELSE \E thrown \in BOOLEAN :
            IF thrown
            THEN /\ aiAnalysis' = OnRejected
                 /\ isAnalyzing' = FALSE
                 /\ rendered' = [isAnalyzing |-> FALSE]
                 /\ UNCHANGED requests
            ELSE /\ requests' = Append(requests, [status |-> "pending", text |-> <<>>])
                 /\ isAnalyzing' = BeginAnalysis(isAnalyzing)
                 /\ rendered' = [isAnalyzing |-> isAnalyzing']
                 /\ UNCHANGED aiAnalysis
  /\ UNCHANGED <<data, nextId, summary, projVars, singleVars, updates, storeVars>>

\* The awaited generateContent call resolves with a response or rejects.
RequestSettles ==
  \E k \in 1..Len(requests) :
    /\ requests[k].status = "pending"
    /\ \/ \E text \in ResponseTexts :
            requests' = [requests EXCEPT ![k] = [status |-> "fulfilled", text |-> text]]
       \/ requests' = [requests EXCEPT ![k] = [status |-> "rejected", text |-> <<>>]]
    /\ UNCHANGED <<data, nextId, summary, projVars, singleVars, updates, storeVars,
                   aiAnalysis, isAnalyzing, rendered>>

\* The resumption without the finally block: isAnalyzing stays as it is.
AnalyzeResumesWithoutFinally ==
  \E k \in 1..Len(requests) :
    /\ requests[k].status # "pending"
    /\ aiAnalysis' = IF requests[k].status = "fulfilled"
                     THEN OnFulfilled(requests[k].text)
                     ELSE OnRejected
    /\ requests' = Remove(requests, k)
    /\ UNCHANGED <<data, nextId, summary, projVars, singleVars, updates, storeVars,
                   isAnalyzing, rendered>>

\* analyzeWithAI resumes after the await: the rest of try, or catch; finally.
AnalyzeResumes ==
  \E k \in 1..Len(requests) :
    /\ requests[k].status # "pending"
    /\ aiAnalysis' = IF requests[k].status = "fulfilled"
                     THEN OnFulfilled(requests[k].text)
                     ELSE OnRejected
    /\ isAnalyzing' = FALSE
    /\ requests' = Remove(requests, k)
    /\ UNCHANGED <<data, nextId, summary, projVars, singleVars, updates, storeVars, rendered>>

\* onClick={() => setAiAnalysis(null)}: the two buttons that close the
\* analysis, shown while aiAnalysis holds a text.
closeAnalysis ==
  /\ status = "mounted"
  /\ aiAnalysis # <<>>
  /\ aiAnalysis' = <<>>
  /\ UNCHANGED <<data, nextId, summary, projVars, singleVars, updates, storeVars,
                 isAnalyzing, rendered, requests>>

\* The render that follows the updates of AnalyzeResumes.
Render ==
  /\ status = "mounted"
  /\ rendered.isAnalyzing # isAnalyzing
  /\ rendered' = [isAnalyzing |-> isAnalyzing]
  /\ UNCHANGED <<data, nextId, summary, projVars, singleVars, updates, storeVars,
                 aiAnalysis, isAnalyzing, requests>>

\* updateSalary(parseFloat(e.target.value) || 0)
updateSalary ==
  \E val \in Salaries :
    /\ status = "mounted"
    /\ data' = [data EXCEPT !.salary = val]
    /\ storage' = Persisted(storage, data')
    /\ effectPending' = FALSE
    /\ UNCHANGED <<nextId, summary, projVars, singleVars, updates, aiVars, status>>

\* onChange={(e) => setProjectionDays(Number(e.target.value))}
setProjectionDays ==
  \E days \in HorizonOptions :
    /\ status = "mounted"
    /\ projectionDays' = days
    /\ UNCHANGED <<data, nextId, summary, startDate, dailyRate, pc, i,
                   currentCapital, results, dailyProjection, singleVars, updates,
                   aiVars, storeVars>>

InitAI ==
  /\ data = [investments |-> <<>>, salary |-> Zero, extraIncomes |-> <<>>]
  /\ nextId = 1
  /\ summary = Summary(data.investments)
  /\ projectionDays = 30
  /\ startDate = NoInstant
  /\ dailyRate = Zero
  /\ pc = "done"
  /\ i = 0
  /\ currentCapital = Zero
  /\ results = <<>>
  /\ dailyProjection = <<>>
  /\ single = SingleIdle
  /\ AIIdle
  /\ updates = <<>>
  /\ Saved

NextAI ==
  \/ analyzeWithAI
  \/ RequestSettles
  \/ AnalyzeResumes
  \/ Render
  \/ closeAnalysis
  \/ updateSalary
  \/ setProjectionDays
  \/ addInvestment
  \/ removeInvestment

SpecAI == InitAI /\ [][NextAI]_vars

\* The continuation of an await runs once its promise has settled, and React
\* renders the state updates it has been given.  Nothing makes a pending
\* request settle: generateContent is awaited without a timeout.
SpecAILive ==
  /\ SpecAI
  /\ WF_vars(AnalyzeResumes)
  /\ WF_vars(Render)

----------------------------------------------------------------------------
(* Startup and persistence: the useState initializer that reads the stored *)
(* item, the extra-income handlers, and the persistence effect of the      *)
(* first render.                                                           *)

\* The values JavaScript takes for false in `x || y` and `if (x)`.
Falsy(v) ==
  CASE v.type \in {"undefined", "null"} -> TRUE
    [] v.type = "number" -> v.value = Zero \/ v.value = <<0, 0>>
    [] OTHER -> FALSE

\* a || b
OrElse(a, b) == IF Falsy(a) THEN b ELSE a

\* parsed.name, for a parsed value that is neither null nor undefined: the
\* field of an object, undefined where there is none.
GetProperty(v, name) ==
  IF v.type = "object" /\ name \in DOMAIN v.fields THEN v.fields[name]
  ELSE Undefined

\* if (saved): getItem returned a string that is not empty.
Truthy(saved) == saved.kind = "json" \/ (saved.kind = "text" /\ saved.text # "")

\* JSON.parse(saved) returns; it throws a SyntaxError for text that is not JSON.
Parses(saved) == saved.kind = "json"

\* The object returned inside the try block, as JavaScript values.  Reading
\* a field of null throws a TypeError, which the catch takes like a
\* SyntaxError.
Restored(parsed) ==
  [investments |-> OrElse(GetProperty(parsed, "investments"), JArray(<<>>)),
   salary |-> OrElse(GetProperty(parsed, "salary"), JNumber(Zero)),
   extraIncomes |-> OrElse(GetProperty(parsed, "extraIncomes"), JArray(<<>>))]

\* The initializer leaves the try block by its return.
ReturnsRestored(saved) ==
  Truthy(saved) /\ Parses(saved) /\ saved.value.type # "null"

\* The hardcoded initial values.
DefaultData ==
  [investments |->
     << [id |-> 1, name |-> "Open Bank", amount |-> Num(223045),
         annualYield |-> Rat(1176, 100)],
        [id |-> 2, name |-> "Didi", amount |-> Num(16), annualYield |-> Num(16)],
        [id |-> 3, name |-> "Efectivo", amount |-> Rat(85, 1000),
         annualYield |-> Zero],
        [id |-> 4, name |-> "ML", amount |-> Num(24982),
         annualYield |-> Rat(916, 100)],
        [id |-> 5, name |-> "Nu", amount |-> Num(24780),
         annualYield |-> Rat(908, 100)] >>,
   salary |-> Zero,
   extraIncomes |-> <<>>]

\* The first render of a restored state: summary calls data.investments.reduce
\* and reads inv.amount of every element, the projection calls
\* data.extraIncomes.forEach.  Each throws a TypeError on a value of another
\* shape, and nothing catches an error thrown while rendering.
RenderThrows(js) ==
  \/ js.investments.type # "array"
  \/ \E k \in 1..Len(js.investments.items) :
       js.investments.items[k].type \in {"null", "undefined"}
  \/ js.extraIncomes.type # "array"

ParseInvestment(o) ==
  [id |-> o.fields.id.value, name |-> o.fields.name.value,
   amount |-> o.fields.amount.value, annualYield |-> o.fields.annualYield.value]

ParseExtraIncome(o) ==
  [id |-> o.fields.id.value, description |-> o.fields.description.value,
   amount |-> o.fields.amount.value, date |-> o.fields.date.value]

\* The state the restored JavaScript values are.
FromRestored(js) ==
  [investments |-> [k \in 1..Len(js.investments.items) |->
                      ParseInvestment(js.investments.items[k])],
   salary |-> js.salary.value,
   extraIncomes |-> [k \in 1..Len(js.extraIncomes.items) |->
                       ParseExtraIncome(js.extraIncomes.items[k])]]

\* The initializer that takes a stored state without accounts for no state
\* at all and starts with the defaults.
LoadDefaultsWhenNoAccounts(saved) ==
  IF /\ ReturnsRestored(saved)
     /\ Restored(saved.value).investments # JArray(<<>>)
  THEN IF RenderThrows(Restored(saved.value))
       THEN [status |-> "crashed",
             data |-> [investments |-> <<>>, salary |-> Zero,
                       extraIncomes |-> <<>>]]
       ELSE [status |-> "mounted", data |-> FromRestored(Restored(saved.value))]
  ELSE [status |-> "mounted", data |-> DefaultData]

\* useState(() => { ... }) followed by the first render.  Where the render
\* throws, the application shows nothing and holds no state.
Load(saved) ==
  IF ReturnsRestored(saved)
  THEN IF RenderThrows(Restored(saved.value))
       THEN [status |-> "crashed",
             data |-> [investments |-> <<>>, salary |-> Zero,
                       extraIncomes |-> <<>>]]
       ELSE [status |-> "mounted", data |-> FromRestored(Restored(saved.value))]
  ELSE [status |-> "mounted", data |-> DefaultData]

\* The states earlier runs of the application have saved.
SavedStates ==
  {[investments |-> <<>>, salary |-> Zero, extraIncomes |-> <<>>],
   [investments |-> <<[id |-> 1, name |-> "Nu", amount |-> Rat(1, 2),
                       annualYield |-> Num(100)]>>,
    salary |-> Num(10),
    extraIncomes |-> <<[id |-> 2, description |-> "Bono", amount |-> Num(5),
                        date |-> <<2025, 1, 14>>]>>]}

\* What the key can hold when the application starts: nothing, the empty
\* string, text that is not JSON, JSON of other values than a saved state,
\* and saved states.
StoredItems ==
  {NoItem, NotJson(""), NotJson("{oops"),
   JsonText(JNull), JsonText(JNumber(Num(5))), JsonText(JObject(<<>>)),
   JsonText(JObject([salary |-> JNumber(Num(10))])),
   JsonText(JObject([investments |-> JArray(<<>>), salary |-> JNull,
                     extraIncomes |-> JArray(<<>>)])),
   JsonText(JObject([investments |-> JNumber(Num(5))])),
   JsonText(JObject([investments |-> JArray(<<JNull>>)])),
   JsonText(JObject([extraIncomes |-> JString("none")]))}
    \cup {JSONStringify(d) : d \in SavedStates}

RECURSIVE MaxId(_)
MaxId(rows) ==
  IF rows = <<>> THEN 0
  ELSE LET rest == MaxId(Tail(rows))
       IN  IF Head(rows).id > rest THEN Head(rows).id ELSE rest

\* What the description, amount and date inputs of an extra income deliver.
Descriptions == {""}

ExtraAmounts == {Zero, Num(5)}

InputDates == {<<2025, 1, 15>>}

SetExtraField(extra, field, value) ==
  CASE field = "description" -> [extra EXCEPT !.description = value]
    [] field = "amount" -> [extra EXCEPT !.amount = value]
    [] field = "date" -> [extra EXCEPT !.date = value]

ExtraFieldValues(field) ==
  CASE field = "description" -> Descriptions
    [] field = "amount" -> ExtraAmounts
    [] field = "date" -> InputDates

\* addExtraIncome: description 'Ingreso Extra', amount 0 and today's date as
\* toISOString gives it.
addExtraIncome ==
  /\ status = "mounted"
  /\ Len(data.extraIncomes) < MaxExtras
  /\ nextId <= MaxAdds
  /\ data' = [data EXCEPT !.extraIncomes =
                Append(@, [id |-> nextId, description |-> "Ingreso Extra",
                           amount |-> Zero,
                           date |-> IsoDate(startDate.date, startDate)])]
  /\ nextId' = nextId + 1
  /\ storage' = Persisted(storage, data')
  /\ effectPending' = FALSE
  /\ UNCHANGED <<summary, projVars, singleVars, updates, aiVars, status>>

updateExtraIncome ==
  \E id \in 1..MaxAdds, field \in {"description", "amount", "date"} :
    \E value \in ExtraFieldValues(field) :
      LET upd(extra) ==
            IF extra.id = id THEN SetExtraField(extra, field, value) ELSE extra
      IN  /\ status = "mounted"
          /\ \E k \in 1..Len(data.extraIncomes) : data.extraIncomes[k].id = id
          /\ data' = [data EXCEPT !.extraIncomes =
                        [k \in 1..Len(@) |-> upd(@[k])]]
          /\ storage' = Persisted(storage, data')
          /\ effectPending' = FALSE
          /\ UNCHANGED <<nextId, summary, projVars, singleVars, updates, aiVars, status>>

removeExtraIncome ==
  \E id \in 1..MaxAdds :
    LET keep(extra) == extra.id # id
    IN  /\ status = "mounted"
        /\ \E k \in 1..Len(data.extraIncomes) : data.extraIncomes[k].id = id
        /\ data' = [data EXCEPT !.extraIncomes = SelectSeq(@, keep)]
        /\ storage' = Persisted(storage, data')
        /\ effectPending' = FALSE
        /\ UNCHANGED <<nextId, summary, projVars, singleVars, updates, aiVars, status>>

\* The persistence effect of the first render, run when no input event has
\* come before it.
MountEffect ==
  /\ status = "mounted"
  /\ effectPending
  /\ storage' = Persisted(storage, data)
  /\ effectPending' = FALSE
  /\ UNCHANGED <<data, nextId, summary, projVars, singleVars, updates, aiVars, status>>

InitStorage ==
  /\ storage \in StoredItems
  /\ status = Load(storage).status
  /\ data = Load(storage).data
  /\ effectPending = TRUE
  /\ nextId = 1 + MaxId(data.investments \o data.extraIncomes)
  /\ summary = Summary(data.investments)
  /\ projectionDays = 30
  /\ startDate = NoInstant
  /\ dailyRate = Zero
  /\ pc = "done"
  /\ i = 0
  /\ currentCapital = Zero
  /\ results = <<>>
  /\ dailyProjection = <<>>
  /\ single = SingleIdle
  /\ AIIdle
  /\ updates = <<>>

NextStorage ==
  \/ MountEffect
  \/ updateSalary
  \/ addInvestment
  \/ removeInvestment
  \/ addExtraIncome
  \/ updateExtraIncome
  \/ removeExtraIncome

SpecStorage == InitStorage /\ [][NextStorage]_vars

----------------------------------------------------------------------------
(* Rendering.  A handler calls setData or setProjectionDays, which puts an *)
(* update in the queue of the hook; the next render processes the queues   *)
(* in order, recomputes the memoized summary and projection whose          *)
(* dependencies have changed, and is followed by the persistence effect.   *)
(* The updates of a run are kept in `updates`, each marked once a render   *)
(* has processed it.                                                       *)

\* The function a handler passes to setData, applied to the state prev.
ApplyUpdater(prev, op) ==
  CASE op.name = "updateSalary" -> [prev EXCEPT !.salary = op.value]
    [] op.name = "addExtraIncome" ->
         [prev EXCEPT !.extraIncomes =
            Append(@, [id |-> op.id, description |-> "Ingreso Extra",
                       amount |-> Zero, date |-> op.date])]
    [] op.name = "updateExtraIncome" ->
         [prev EXCEPT !.extraIncomes =
            [k \in 1..Len(@) |->
               IF @[k].id = op.id THEN SetExtraField(@[k], op.field, op.value)
               ELSE @[k]]]
    [] op.name = "removeExtraIncome" ->
         LET keep(item) == item.id # op.id
         IN  [prev EXCEPT !.extraIncomes = SelectSeq(@, keep)]
    [] op.name = "updateInvestment" ->
         [prev EXCEPT !.investments =
            [k \in 1..Len(@) |->
               IF @[k].id = op.id THEN SetField(@[k], op.field, op.value)
               ELSE @[k]]]
    [] op.name = "addInvestment" ->
         [prev EXCEPT !.investments =
            Append(@, [id |-> op.id, name |-> "", amount |-> Zero,
                       annualYield |-> Zero])]
    [] op.name = "removeInvestment" ->
         LET keep(inv) == inv.id # op.id
         IN  [prev EXCEPT !.investments = SelectSeq(@, keep)]

\* setInvestments([...investments, newInv]) and its like: the update is the
\* value the handler has computed from the state of the render it closes
\* over.
ValueUpdate(shown, op) ==
  [hook |-> "data", kind |-> "value", op |-> op,
   value |-> ApplyUpdater(shown, op), processed |-> FALSE]

\* setData(prev => ...): the update is the function itself.
FunctionalUpdate(shown, op) ==
  [hook |-> "data", kind |-> "function", op |-> op, value |-> Undefined,
   processed |-> FALSE]

\* setProjectionDays(Number(e.target.value))
HorizonUpdate(days) ==
  [hook |-> "projectionDays", kind |-> "value", op |-> [name |-> "setProjectionDays"],
   value |-> days, processed |-> FALSE]

\* The updates of a hook that no render has processed, in dispatch order.
Pending(queue, hook) ==
  LET waiting(u) == u.hook = hook /\ ~u.processed
  IN  SelectSeq(queue, waiting)

\* React processing the queue of a hook: a function is applied to the state
\* the updates before it have produced, a value replaces it.
RECURSIVE ProcessQueue(_, _)
ProcessQueue(state, queue) ==
  IF queue = <<>> THEN state
  ELSE LET u == Head(queue)
       IN  ProcessQueue(IF u.kind = "function" THEN ApplyUpdater(state, u.op)
                        ELSE u.value,
                        Tail(queue))

\* The projector as a function of its inputs: the entries the loop pushes
\* for counters n, n + 1, ... below the horizon.
RECURSIVE ProjectionLoop(_, _, _, _, _, _, _)
ProjectionLoop(n, capital, rate, start, salary, extraIncomes, horizon) ==
  IF LoopContinues(n, horizon)
  THEN LET entry == LoopBody(n, capital, rate, start, salary, extraIncomes)
       IN  <<entry>> \o ProjectionLoop(n + 1, entry.total, rate, start, salary,
                                       extraIncomes, horizon)
  ELSE <<>>

DailyProjection(summ, salary, extraIncomes, horizon, start) ==
  ProjectionLoop(0, summ.totalAmount, DailyRate(summ.weightedAverageYield),
                 start, salary, extraIncomes, horizon)

\* The dependency list without the salary.
ProjectionDepsWithoutSalary(summ, d, days) == <<summ, d.extraIncomes, days>>

\* [summary, data.salary, data.extraIncomes, projectionDays, dateFormatter];
\* the formatter is made once.  Dependencies are compared here by value: a
\* new object of equal value makes React recompute the same result.
ProjectionDeps(summ, d, days) == <<summ, d.salary, d.extraIncomes, days>>

\* The values the inputs of a row deliver in a batch.
BatchFieldValues(field) ==
  CASE field = "name" -> {"Nu"}
    [] field = "amount" -> {Rat(1, 2)}
    [] field = "annualYield" -> {Zero, Num(100)}

\* The horizons the selector offers, scaled to the horizon bound.
Horizons == 1..MaxHorizon

CanDispatch == status = "mounted" /\ Len(updates) < MaxBatch

DispatchUpdateSalary ==
  \E val \in Salaries :
    /\ CanDispatch
    /\ updates' = Append(updates, FunctionalUpdate(data, [name |-> "updateSalary", value |-> val]))
    /\ UNCHANGED <<data, nextId, summary, projVars, singleVars, aiVars, storeVars>>

DispatchAddExtraIncome ==
  /\ CanDispatch
  /\ Len(data.extraIncomes) < MaxExtras
  /\ nextId <= MaxAdds
  /\ updates' = Append(updates,
                  FunctionalUpdate(data, [name |-> "addExtraIncome", id |-> nextId,
                                          date |-> IsoDate(startDate.date, startDate)]))
  /\ nextId' = nextId + 1
  /\ UNCHANGED <<data, summary, projVars, singleVars, aiVars, storeVars>>

DispatchUpdateExtraIncome ==
  \E k \in 1..Len(data.extraIncomes), field \in {"description", "amount", "date"} :
    \E value \in ExtraFieldValues(field) :
      /\ CanDispatch
      /\ updates' = Append(updates,
                      FunctionalUpdate(data, [name |-> "updateExtraIncome",
                                              id |-> data.extraIncomes[k].id,
                                              field |-> field, value |-> value]))
      /\ UNCHANGED <<data, nextId, summary, projVars, singleVars, aiVars, storeVars>>

DispatchRemoveExtraIncome ==
  \E k \in 1..Len(data.extraIncomes) :
    /\ CanDispatch
    /\ updates' = Append(updates,
                    FunctionalUpdate(data, [name |-> "removeExtraIncome",
                                            id |-> data.extraIncomes[k].id]))
    /\ UNCHANGED <<data, nextId, summary, projVars, singleVars, aiVars, storeVars>>

DispatchUpdateInvestment ==
  \E k \in 1..Len(data.investments), field \in AccountFields :
    \E value \in BatchFieldValues(field) :
      /\ CanDispatch
      /\ updates' = Append(updates,
                      FunctionalUpdate(data, [name |-> "updateInvestment",
                                              id |-> data.investments[k].id,
                                              field |-> field, value |-> value]))
      /\ UNCHANGED <<data, nextId, summary, projVars, singleVars, aiVars, storeVars>>

DispatchAddInvestment ==
  /\ CanDispatch
  /\ Len(data.investments) < MaxAccounts
  /\ nextId <= MaxAdds
  /\ updates' = Append(updates,
                  FunctionalUpdate(data, [name |-> "addInvestment", id |-> nextId]))
  /\ nextId' = nextId + 1
  /\ UNCHANGED <<data, summary, projVars, singleVars, aiVars, storeVars>>

DispatchRemoveInvestment ==
  \E k \in 1..Len(data.investments) :
    /\ CanDispatch
    /\ updates' = Append(updates,
                    FunctionalUpdate(data, [name |-> "removeInvestment",
                                            id |-> data.investments[k].id]))
    /\ UNCHANGED <<data, nextId, summary, projVars, singleVars, aiVars, storeVars>>

DispatchSetProjectionDays ==
  \E days \in Horizons :
    /\ CanDispatch
    /\ updates' = Append(updates, HorizonUpdate(days))
    /\ UNCHANGED <<data, nextId, summary, projVars, singleVars, aiVars, storeVars>>

\* The render that follows the dispatched updates, with its effect.
RenderUpdates ==
  /\ status = "mounted"
  /\ \E k \in 1..Len(updates) : ~updates[k].processed
  /\ data' = ProcessQueue(data, Pending(updates, "data"))
  /\ projectionDays' = ProcessQueue(projectionDays, Pending(updates, "projectionDays"))
  /\ updates' = [k \in 1..Len(updates) |-> [updates[k] EXCEPT !.processed = TRUE]]
  /\ summary' = IF data'.investments = data.investments THEN summary
                ELSE Summary(data'.investments)
  /\ dailyProjection' =
       IF ProjectionDeps(summary', data', projectionDays') =
            ProjectionDeps(summary, data, projectionDays)
       THEN dailyProjection
       ELSE DailyProjection(summary', data'.salary, data'.extraIncomes,
                            projectionDays', startDate)
  /\ results' = dailyProjection'
  /\ i' = projectionDays'
  /\ dailyRate' = DailyRate(summary'.weightedAverageYield)
  /\ currentCapital' = IF dailyProjection' = <<>> THEN summary'.totalAmount
                       ELSE dailyProjection'[Len(dailyProjection')].total
  /\ storage' = Persisted(storage, data')
  /\ effectPending' = FALSE
  /\ UNCHANGED <<nextId, startDate, pc, singleVars, aiVars, status>>

\* The states a run of edits starts from, rendered and saved.
RenderStarts == SavedStates

InitRender ==
  /\ data \in RenderStarts
  /\ nextId = 1 + MaxId(data.investments \o data.extraIncomes)
  /\ summary = Summary(data.investments)
  /\ projectionDays = MaxHorizon - 1
  /\ startDate = NoInstant
  /\ dailyRate = DailyRate(summary.weightedAverageYield)
  /\ dailyProjection = DailyProjection(summary, data.salary, data.extraIncomes,
                                       projectionDays, startDate)
  /\ results = dailyProjection
  /\ i = projectionDays
  /\ currentCapital = IF dailyProjection = <<>> THEN summary.totalAmount
                      ELSE dailyProjection[Len(dailyProjection)].total
  /\ pc = "done"
  /\ single = SingleIdle
  /\ AIIdle
  /\ updates = <<>>
  /\ Saved

NextRender ==
  \/ DispatchUpdateSalary
  \/ DispatchAddExtraIncome
  \/ DispatchUpdateExtraIncome
  \/ DispatchRemoveExtraIncome
  \/ DispatchUpdateInvestment
  \/ DispatchAddInvestment
  \/ DispatchRemoveInvestment
  \/ DispatchSetProjectionDays
  \/ RenderUpdates

SpecRender == InitRender /\ [][NextRender]_vars

(* The first version of the application (src/unnamed/part_000): its state is *)
(* the account list alone, here data.investments, and its handlers pass    *)
(* setInvestments a list computed from the list of the render they close   *)
(* over.                                                                   *)

\* setInvestments([...investments, newInv])
SingleAddInvestment ==
  /\ CanDispatch
  /\ Len(data.investments) < MaxAccounts
  /\ nextId <= MaxAdds
  /\ updates' = Append(updates,
                  ValueUpdate(data, [name |-> "addInvestment", id |-> nextId]))
  /\ nextId' = nextId + 1
  /\ UNCHANGED <<data, summary, projVars, singleVars, aiVars, storeVars>>

\* setInvestments(investments.map(...))
SingleUpdateInvestment ==
  \E k \in 1..Len(data.investments), field \in AccountFields :
    \E value \in BatchFieldValues(field) :
      /\ CanDispatch
      /\ updates' = Append(updates,
                      ValueUpdate(data, [name |-> "updateInvestment",
                                         id |-> data.investments[k].id,
                                         field |-> field, value |-> value]))
      /\ UNCHANGED <<data, nextId, summary, projVars, singleVars, aiVars, storeVars>>

\* setInvestments(investments.filter(inv => inv.id !== id))
deleteInvestment ==
  \E k \in 1..Len(data.investments) :
    /\ CanDispatch
    /\ updates' = Append(updates,
                    ValueUpdate(data, [name |-> "removeInvestment",
                                       id |-> data.investments[k].id]))
    /\ UNCHANGED <<data, nextId, summary, projVars, singleVars, aiVars, storeVars>>

\* The render that follows: the queue is processed and the summary
\* recomputed; this version stores nothing and projects nothing.
SingleRender ==
  /\ status = "mounted"
  /\ \E k \in 1..Len(updates) : ~updates[k].processed
  /\ data' = ProcessQueue(data, Pending(updates, "data"))
  /\ updates' = [k \in 1..Len(updates) |-> [updates[k] EXCEPT !.processed = TRUE]]
  /\ summary' = Summary(data'.investments)
  /\ UNCHANGED <<nextId, projVars, singleVars, aiVars, storeVars>>

\* The account lists a run of edits of the first version starts from.
SingleStarts ==
  {[investments |-> <<>>, salary |-> Zero, extraIncomes |-> <<>>],
   [investments |-> <<[id |-> 1, name |-> "Nu", amount |-> Rat(1, 2),
                       annualYield |-> Num(100)]>>,
    salary |-> Zero, extraIncomes |-> <<>>],
   [investments |-> <<[id |-> 1, name |-> "Didi", amount |-> Num(16),
                       annualYield |-> Zero],
                      [id |-> 2, name |-> "", amount |-> Zero,
                       annualYield |-> Zero]>>,
    salary |-> Zero, extraIncomes |-> <<>>]}

InitRenderSingle ==
  /\ data \in SingleStarts
  /\ nextId = 1 + MaxId(data.investments)
  /\ summary = Summary(data.investments)
  /\ projectionDays = 0
  /\ startDate = NoInstant
  /\ dailyRate = Zero
  /\ pc = "done"
  /\ i = 0
  /\ currentCapital = Zero
  /\ results = <<>>
  /\ dailyProjection = <<>>
  /\ single = SingleIdle
  /\ AIIdle
  /\ updates = <<>>
  /\ Saved

NextRenderSingle ==
  \/ SingleAddInvestment
  \/ SingleUpdateInvestment
  \/ deleteInvestment
  \/ SingleRender

SpecRenderSingle == InitRenderSingle /\ [][NextRenderSingle]_vars

----------------------------------------------------------------------------
(* The single-portfolio projector (src/unnamed/part_001): no salary, no    *)
(* extra incomes, the interest computed at the top of the loop body.  Its  *)
(* summary is computed as in App.tsx (part_001:32-39).                     *)

\* The rate as a simple division of the annual yield by 365.
SingleDailyRateSimple(weightedAverageYield) ==
  RDiv(RDiv(weightedAverageYield, Num(100)), Num(365))

\* const dailyRate = Math.pow(1 + summary.weightedAverageYield / 100, 1 / 365) - 1
SingleDailyRate(weightedAverageYield) ==
  RAdd(MathPow365thRoot(RAdd(Num(1), RDiv(weightedAverageYield, Num(100)))),
       Num(-1))

\* One pass of its loop body for counter n: the entry pushed to data; its
\* total is the new currentCapital.
SingleLoopBody(n, capital, rate, start) ==
  LET dailyEarned == RMul(capital, rate)
      total == RAdd(capital, dailyEarned)
      currentDate == CurrentDate(start, n)
  IN  [day |-> n + 1, date |-> FormatDate(currentDate), earned |-> dailyEarned,
       total |-> total]

SingleLoopIteration ==
  /\ single.pc = "loop"
  /\ single.i < projectionDays
  /\ LET entry == SingleLoopBody(single.i, single.currentCapital,
                                 single.dailyRate, startDate)
     IN  single' = [single EXCEPT !.data = Append(@, entry),
                                  !.currentCapital = entry.total,
                                  !.i = @ + 1]
  /\ UNCHANGED <<data, nextId, summary, projVars, aiVars, storeVars, updates>>

\* return data
SingleLoopExit ==
  /\ single.pc = "loop"
  /\ ~(single.i < projectionDays)
  /\ single' = [single EXCEPT !.pc = "done"]
  /\ UNCHANGED <<data, nextId, summary, projVars, aiVars, storeVars, updates>>

SinglePortfolios ==
  ProjectionPortfolios \cup
    {<<Account(Num(4), Num(-100))>>, <<Account(Num(4), Num(-200))>>}

\* Both projectors started on the same account list, horizon and instant.
InitSingle ==
  /\ startDate \in StartInstants
  /\ \E investments \in SinglePortfolios, salary \in Salaries :
       data = [investments |-> investments, salary |-> salary,
               extraIncomes |-> <<>>]
  /\ nextId = 1
  /\ summary = Summary(data.investments)
  /\ projectionDays \in 0..MaxHorizon
  /\ dailyRate = DailyRate(summary.weightedAverageYield)
  /\ currentCapital = summary.totalAmount
  /\ results = <<>>
  /\ i = 0
  /\ pc = "loop"
  /\ dailyProjection = <<>>
  /\ single = [dailyRate |-> SingleDailyRate(summary.weightedAverageYield),
               currentCapital |-> summary.totalAmount, data |-> <<>>,
               i |-> 0, pc |-> "loop"]
  /\ AIIdle
  /\ updates = <<>>
  /\ Saved

NextSingle ==
  LoopIteration \/ LoopExit \/ SingleLoopIteration \/ SingleLoopExit

SpecSingle == InitSingle /\ [][NextSingle]_vars

----------------------------------------------------------------------------
(* Claims about the aggregator, checked under SpecAccounts. *)

Amount(k) == data.investments[k].amount

Yield(k) == data.investments[k].annualYield

NumAccounts == Len(data.investments)

\* The sum of a sequence of numbers, taken from the last one backwards.
RECURSIVE SumBackwards(_)
SumBackwards(terms) ==
  IF terms = <<>> THEN Zero
  ELSE RAdd(terms[Len(terms)], SumBackwards(SubSeq(terms, 1, Len(terms) - 1)))

SumOfAmounts == SumBackwards([k \in 1..NumAccounts |-> Amount(k)])

SumOfAmountTimesYield ==
  SumBackwards([k \in 1..NumAccounts |-> RMul(Amount(k), Yield(k))])

Permuted(s, p) == [k \in 1..Len(s) |-> s[p[k]]]

IsFinite(x) == x[2] > 0

AllAmountsNonNegative == \A k \in 1..NumAccounts : RLe(Zero, Amount(k))

\* C1: for every list of accounts (the empty list and negative amounts
\* included) totalAmount is the arithmetic sum of the amounts, and the
\* aggregator returns the same totalAmount for every permutation of the list.
C1_TotalAmountIsTheSum ==
  /\ summary.totalAmount = SumOfAmounts
  /\ \A p \in Permutations(1..NumAccounts) :
       Summary(Permuted(data.investments, p)).totalAmount = summary.totalAmount

C1_Witness ==
  /\ NumAccounts = 3
  /\ Amount(1) = Num(-1) /\ Amount(2) = Rat(1, 2) /\ Amount(3) = Zero
  /\ summary.totalAmount = Rat(-1, 2)

\* C2: weightedAverageYield is (sum of amount x annualYield) / totalAmount
\* when totalAmount > 0, and 0 for every other totalAmount, a negative one
\* included.
C2_WeightedAverageYield ==
  LET total == SumOfAmounts
      weighted == SumOfAmountTimesYield
  IN  IF RGt(total, Zero)
      THEN /\ IsFinite(summary.weightedAverageYield)
           /\ RMul(summary.weightedAverageYield, total) = weighted
      ELSE summary.weightedAverageYield = Zero

C2_Witness ==
  /\ NumAccounts = 3
  /\ Amount(1) = Rat(1, 2) /\ Yield(1) = Num(100)
  /\ Amount(2) = Rat(1, 2) /\ Yield(2) = Zero
  /\ Amount(3) = Rat(1, 2) /\ Yield(3) = Zero
  /\ summary.weightedAverageYield = Rat(100, 3)

\* C3: whenever totalAmount is 0 (no account, all amounts 0, or amounts that
\* cancel) weightedAverageYield is exactly 0 whatever the yields are, no
\* division by zero has produced a non-finite value, and monthlyIncome is 0.
C3_ZeroTotal ==
  summary.totalAmount = Zero =>
    /\ summary.weightedAverageYield = Zero
    /\ summary.monthlyIncome = Zero

C3_Witness ==
  /\ NumAccounts = 3
  /\ Amount(1) = Rat(1, 2) /\ Yield(1) = Num(100)
  /\ Amount(2) = Rat(1, 2) /\ Yield(2) = Zero
  /\ Amount(3) = Num(-1) /\ Yield(3) = Num(100)
  /\ summary.totalAmount = Zero
  /\ summary.weightedAverageYield = Zero

WithinYieldRange(x) ==
  /\ \E k \in 1..NumAccounts : RLe(Yield(k), x)
  /\ \E k \in 1..NumAccounts : RLe(x, Yield(k))

\* C4 as stated: for every non-empty list whose amounts are all non-negative,
\* min annualYield <= weightedAverageYield <= max annualYield.
C4_AsStated ==
  (NumAccounts > 0 /\ AllAmountsNonNegative) =>
    WithinYieldRange(summary.weightedAverageYield)

\* C4 as amended: for every list whose amounts are all non-negative and
\* whose totalAmount is positive, min annualYield <= weightedAverageYield
\* <= max annualYield; with a totalAmount of 0 the result is 0 instead.
C4_WithinYieldRangeWhenTotalPositive ==
  AllAmountsNonNegative =>
    IF RGt(summary.totalAmount, Zero)
    THEN WithinYieldRange(summary.weightedAverageYield)
    ELSE summary.weightedAverageYield = Zero

C4_Witness ==
  /\ NumAccounts = 3
  /\ Amount(1) = Rat(1, 2) /\ Yield(1) = Zero
  /\ Amount(2) = Rat(1, 2) /\ Yield(2) = Num(100)
  /\ Amount(3) = Rat(1, 2) /\ Yield(3) = Num(100)
  /\ summary.weightedAverageYield = Rat(200, 3)
  /\ RLt(Zero, summary.weightedAverageYield)
  /\ RLt(summary.weightedAverageYield, Num(100))

\* C5: monthlyIncome = totalAmount x (weightedAverageYield / 100) / 12, one
\* twelfth of the simple annual interest at the weighted rate.
C5_MonthlyIncome ==
  /\ IsFinite(summary.monthlyIncome)
  /\ RMul(summary.monthlyIncome, Num(1200)) =
       RMul(summary.totalAmount, summary.weightedAverageYield)

C5_Witness ==
  /\ NumAccounts = 3
  /\ summary.totalAmount = Rat(3, 2)
  /\ summary.weightedAverageYield = Rat(100, 3)
  /\ summary.monthlyIncome = Rat(1, 24)

----------------------------------------------------------------------------
(* Claims about the projector, checked under SpecProjection. *)

\* The calendar as the claims word it: February has 28 or 29 days according
\* to the leap year, the other months 30 or 31.
LastDayOfMonth(y, m) ==
  CASE m = 2 -> IF y % 400 = 0 \/ (y % 4 = 0 /\ y % 100 # 0) THEN 29 ELSE 28
    [] m \in {4, 6, 9, 11} -> 30
    [] OTHER -> 31

NextDay(date) ==
  IF date.day < LastDayOfMonth(date.year, date.month)
  THEN [date EXCEPT !.day = @ + 1]
  ELSE IF date.month < 12
       THEN [year |-> date.year, month |-> date.month + 1, day |-> 1]
       ELSE [year |-> date.year + 1, month |-> 1, day |-> 1]

RECURSIVE AddDays(_, _)
AddDays(date, n) == IF n = 0 THEN date ELSE AddDays(NextDay(date), n - 1)

\* The calendar date of projection day k: the start date plus k days.
DayDate(k) == AddDays(startDate.date, k)

IsPayDay(date) ==
  date.day = 15 \/ date.day = LastDayOfMonth(date.year, date.month)

PrevTotal(k) == IF k = 1 THEN summary.totalAmount ELSE results[k - 1].total

RECURSIVE SumAmounts(_)
SumAmounts(s) == IF s = <<>> THEN Zero ELSE RAdd(Head(s).amount, SumAmounts(Tail(s)))

\* The extra incomes the projector matches on day k, in list order.
MatchedExtras(k) ==
  LET iso == IsoDate(CurrentDate(startDate, k - 1), startDate)
      hit(e) == e.date = iso
  IN  SelectSeq(data.extraIncomes, hit)

\* The extra incomes whose date is the calendar date of day k, in list order.
ExtrasDated(k) ==
  LET hit(e) == e.date = IsoOf(DayDate(k))
  IN  SelectSeq(data.extraIncomes, hit)

SalaryLabels(k) ==
  LET quincena(ev) == ev[1] = "Quincena"
  IN  SelectSeq(results[k].events, quincena)

\* C6: for every horizon h >= 0 the projection loop terminates and returns
\* exactly h entries whose day fields are 1, 2, ..., h in order; a horizon of
\* 0 gives the empty sequence.  Termination: the counter i never passes the
\* horizon, every pass of the loop raises it by one and adds one entry, and
\* the only other step is the return, taken with i at the horizon.
C6_TerminatesWithHorizonEntries ==
  /\ [](/\ i <= projectionDays
        /\ Len(results) = i
        /\ \A k \in 1..Len(results) : results[k].day = k
        /\ pc = "done" =>
             /\ Len(dailyProjection) = projectionDays
             /\ \A k \in 1..projectionDays : dailyProjection[k].day = k)
  /\ [][\/ pc' = "loop" /\ i' = i + 1 /\ Len(results') = Len(results) + 1
        \/ pc = "loop" /\ pc' = "done" /\ i = projectionDays]_vars

C6_Witness ==
  /\ pc = "done"
  /\ projectionDays = 3
  /\ Len(dailyProjection) = 3
  /\ dailyProjection[3].day = 3

\* C7: a projection day receives the salary iff its day of the month is 15
\* or the last day of its month (28/29 for February, 30 or 31 otherwise); on
\* such a day exactly one salary amount is added, on any other day none.
C7_SalaryOnPayDaysOnly ==
  \A k \in 1..Len(results) :
    LET paid == IsPayDay(DayDate(k))
    IN  /\ Len(SalaryLabels(k)) = (IF paid THEN 1 ELSE 0)
        /\ results[k].income =
             RAdd(IF paid THEN data.salary ELSE Zero, SumAmounts(MatchedExtras(k)))

C7_Witness ==
  \E k \in 1..Len(results) :
    /\ results[k].date = <<29, "feb", 2024>>
    /\ data.salary = Num(10)
    /\ data.extraIncomes = <<>>
    /\ results[k].income = Num(10)
    /\ k > 1 /\ results[k - 1].income = Zero

\* C8 as stated: the extra-income part of a day's income is the sum of the
\* amounts of the extra incomes whose date is that day's calendar date; they
\* all apply, their labels appear in list order, and an extra income
\* contributes to no other day.
C8_ExtraIncomeOnItsCalendarDate ==
  \A k \in 1..Len(results) :
    LET paid == IsPayDay(DayDate(k))
        due == ExtrasDated(k)
        labels == IF paid THEN Tail(results[k].events) ELSE results[k].events
    IN  /\ results[k].income =
             RAdd(IF paid THEN data.salary ELSE Zero, SumAmounts(due))
        /\ labels = [n \in 1..Len(due) |-> ExtraLabel(due[n])]

\* C9: with total[0] = totalAmount, the day's income is added to the capital
\* before the interest is computed: earned[k] = (total[k-1] + income[k]) x
\* dailyRate and total[k] = total[k-1] + income[k] + earned[k].
C9_IncomeBeforeInterest ==
  \A k \in 1..Len(results) :
    /\ results[k].earned = RMul(RAdd(PrevTotal(k), results[k].income), dailyRate)
    /\ results[k].total =
         RAdd(RAdd(PrevTotal(k), results[k].income), results[k].earned)

C9_Witness ==
  \E k \in 1..Len(results) :
    /\ k > 1
    /\ dailyRate = <<Num(2), 365, <<<<Num(-1), 0>>, <<Num(1), 1>>>>>>
    /\ results[k].income = Num(17)
    /\ results[k].earned # RMul(PrevTotal(k), dailyRate)

\* C10: when the weighted annual yield is 0 every projection day has
\* earned = 0, and total[k] = total[k-1] on every day that is neither a
\* salary day nor matched by an extra income.
C10_ZeroYieldIsFlat ==
  summary.weightedAverageYield = Zero =>
    \A k \in 1..Len(results) :
      /\ results[k].earned = Zero
      /\ (~IsPayDay(DayDate(k)) /\ MatchedExtras(k) = <<>>) =>
           results[k].total = PrevTotal(k)

C10_Witness ==
  /\ summary.weightedAverageYield = Zero
  /\ summary.totalAmount = Num(4)
  /\ Len(results) = 3
  /\ results[1].total = Num(4)
  /\ results[2].total = Num(14)
  /\ results[3].total = Num(14)
  /\ results[3].earned = Zero

\* C11: when salary is 0 and there are no extra incomes, every projection day
\* has income = 0 and total[k] = total[k-1] x (1 + dailyRate), with
\* total[0] = totalAmount; days 15 and month ends are no exception.
C11_PureCompounding ==
  (data.salary = Zero /\ data.extraIncomes = <<>>) =>
    \A k \in 1..Len(results) :
      /\ results[k].income = Zero
      /\ results[k].total = RMul(PrevTotal(k), RAdd(Num(1), dailyRate))

C11_Witness ==
  /\ data.salary = Zero /\ data.extraIncomes = <<>>
  /\ summary.weightedAverageYield = Num(100)
  /\ Len(results) = 3
  /\ results[2].date = <<29, "feb", 2024>>
  /\ results[2].events = <<<<"Quincena", 0>>>>
  /\ results[1].total = <<Num(2), 365, <<<<Num(4), 1>>>>>>
  /\ results[2].total = <<Num(2), 365, <<<<Num(4), 2>>>>>>
  /\ results[3].earned = <<Num(2), 365, <<<<Num(-4), 2>>, <<Num(4), 3>>>>>>

\* The projection days that carry a salary injection.
InjectionDays == {k \in 1..Len(results) : SalaryLabels(k) # <<>>}

\* Starting capital 0, salary 1000, yield 0, no extra incomes, a horizon of
\* 31 days, the start date in a month of 31 days, the projection returned.
MonthScenario ==
  /\ pc = "done"
  /\ projectionDays = 31
  /\ summary.totalAmount = Zero
  /\ summary.weightedAverageYield = Zero
  /\ data.salary = Num(1000)
  /\ data.extraIncomes = <<>>
  /\ LastDayOfMonth(startDate.date.year, startDate.date.month) = 31

\* C12 as stated: in the scenario exactly two salary injections occur, on
\* day 15 and on day 31, and total[31] = 2000.
C12_AsStated ==
  MonthScenario =>
    /\ Cardinality(InjectionDays) = 2
    /\ {dailyProjection[k].date[1] : k \in InjectionDays} = {15, 31}
    /\ dailyProjection[31].total = Num(2000)

\* C12 as amended: in the scenario, with s the day of the month of the start
\* date and L the length of the following month: when s < 15 exactly two
\* injections occur, on the 15th and the 31st of the current month, and
\* total[31] = 2000; when L <= s <= 30 three injections occur and
\* total[31] = 3000; otherwise two injections occur and total[31] = 2000.
\* Every injection is on a 15th or on the last day of its month.
C12_TwoInjectionsFromStartBefore15th ==
  MonthScenario =>
    LET s == startDate.date.day
        following == NextDay([startDate.date EXCEPT !.day = 31])
        L == LastDayOfMonth(following.year, following.month)
        days == InjectionDays
    IN  /\ \A k \in days : IsPayDay(DayDate(k))
        /\ IF s < 15
           THEN /\ Cardinality(days) = 2
                /\ {dailyProjection[k].date : k \in days} =
                     {<<15, MonthShort[startDate.date.month], startDate.date.year>>,
                      <<31, MonthShort[startDate.date.month], startDate.date.year>>}
                /\ dailyProjection[31].total = Num(2000)
           ELSE IF L <= s /\ s <= 30
                THEN /\ Cardinality(days) = 3
                     /\ dailyProjection[31].total = Num(3000)
                ELSE /\ Cardinality(days) = 2
                     /\ dailyProjection[31].total = Num(2000)

C12_Witness ==
  /\ MonthScenario
  /\ startDate.date = [year |-> 2025, month |-> 1, day |-> 13]
  /\ InjectionDays = {2, 18}
  /\ dailyProjection[2].date = <<15, "ene", 2025>>
  /\ dailyProjection[18].date = <<31, "ene", 2025>>
  /\ dailyProjection[17].total = Num(1000)
  /\ dailyProjection[31].total = Num(2000)

\* The projection of a year, returned, with no salary and no extra incomes.
YearScenario ==
  /\ pc = "done"
  /\ projectionDays = 365
  /\ data.salary = Zero
  /\ data.extraIncomes = <<>>

AnnualGrowth == RAdd(Num(1), RDiv(summary.weightedAverageYield, Num(100)))

BothDays ==
  {k \in 1..Len(results) : k <= Len(single.data)}

SameEarnedAndTotal(k) ==
  /\ single.data[k].earned = results[k].earned
  /\ single.data[k].total = results[k].total

\* C14 as stated: for the same account list and horizon the single-portfolio
\* projector produces for every day the same earned and total values as the
\* full projector run with salary 0 and no extra incomes.
C14_AsStated ==
  (data.salary = Zero /\ data.extraIncomes = <<>>) =>
    /\ \A k \in BothDays : SameEarnedAndTotal(k)
    /\ (pc = "done" /\ single.pc = "done") =>
         Len(single.data) = Len(dailyProjection)

\* C14 as amended: the two projectors return the same number of days with
\* the same day numbers and dates, and the same earned and total values
\* when the weighted annual yield is not negative; when it is negative the
\* full projector's earned is 0 and its total is totalAmount on every day,
\* while the single-portfolio projector applies the rate
\* (1 + yield/100)^(1/365) - 1, which is not 0, and its totals differ from
\* totalAmount.
C14_SameAsFullProjectorForYieldNotNegative ==
  (data.salary = Zero /\ data.extraIncomes = <<>>) =>
    /\ (pc = "done" /\ single.pc = "done") =>
         Len(single.data) = Len(dailyProjection)
    /\ \A k \in BothDays :
         /\ single.data[k].day = results[k].day
         /\ single.data[k].date = results[k].date
         /\ IF RLe(Zero, summary.weightedAverageYield)
            THEN SameEarnedAndTotal(k)
            ELSE /\ results[k].earned = Zero
                 /\ results[k].total = summary.totalAmount
                 /\ single.dailyRate # Zero
                 /\ single.data[1].earned # Zero
                 /\ single.data[k].total # summary.totalAmount

C14_Witness ==
  /\ data.salary = Zero
  /\ summary.weightedAverageYield = Num(100)
  /\ pc = "done" /\ single.pc = "done"
  /\ Len(dailyProjection) = 3
  /\ single.data[3].total = <<Num(2), 365, <<<<Num(4), 3>>>>>>
  /\ dailyProjection[3].total = single.data[3].total
  /\ dailyProjection[3].earned = single.data[3].earned

----------------------------------------------------------------------------
(* Claims about the AI analysis, checked under SpecAI. *)

\* C15: at every moment at most one AI-analysis request is in flight: while
\* a request has not yet resolved or failed (and until analyzeWithAI has
\* handled its outcome) the button is disabled and the closure sees
\* isAnalyzing = true, so no invocation issues a second request, for every
\* interleaving of clicks, renders, edits and request completions.
C15_AtMostOneRequestInFlight ==
  /\ Len(requests) <= 1
  /\ requests # <<>> =>
       /\ isAnalyzing
       /\ ButtonDisabled(rendered.isAnalyzing)
       /\ AlreadyAnalyzing(rendered.isAnalyzing)

C15_Witness ==
  /\ Len(requests) = 1
  /\ requests[1].status = "pending"
  /\ isAnalyzing /\ rendered.isAnalyzing
  /\ aiAnalysis = <<>>
  /\ data.salary = Num(10)
  /\ Len(data.investments) = 1

\* C16: when the AI request fails, aiAnalysis is set to the fixed fallback
\* message; when it succeeds with an empty (or missing) text, aiAnalysis is
\* set to the fixed 'could not generate' message; on success with a text,
\* to that text; in all cases, and when the call fails before the request
\* is sent, the accounts, salary, extra incomes and horizon are unchanged.
C16_FailureFallback ==
  [][/\ Len(requests') < Len(requests) =>
          \E k \in 1..Len(requests) :
            /\ requests' = Remove(requests, k)
            /\ requests[k].status \in {"fulfilled", "rejected"}
            /\ aiAnalysis' =
                 (IF requests[k].status = "rejected"
                  THEN <<"Error al conectar con la IA.">>
                  ELSE IF requests[k].text \in {<<>>, <<"">>}
                       THEN <<"No se pudo generar el análisis.">>
                       ELSE requests[k].text)
            /\ ~isAnalyzing'
            /\ data' = data /\ projectionDays' = projectionDays
     /\ aiAnalysis' # aiAnalysis =>
          /\ data' = data /\ projectionDays' = projectionDays
          /\ Len(requests') = Len(requests) =>
               aiAnalysis' \in {<<"Error al conectar con la IA.">>, <<>>}
    ]_vars

C16_Witness ==
  /\ aiAnalysis = <<"No se pudo generar el análisis.">>
  /\ ~isAnalyzing
  /\ requests = <<>>
  /\ data.salary = Num(10)
  /\ Len(data.investments) = 2
  /\ projectionDays = 90

----------------------------------------------------------------------------
(* Startup and persistence. *)

\* Before the first persistence effect the key still holds what the
\* initializer read.
AtStartup == effectPending

\* The field of the stored object, where the object has one that is not
\* null, false, 0, "" or NaN.
StoredField(name) == GetProperty(storage.value, name)

\* C17: at startup the state is the persisted accounts, salary and extra
\* incomes when the key holds a value that parses (to an object), and the
\* five default accounts with salary 0 and no extra incomes when the key
\* is absent or its value does not parse; the application always starts.
C17_StartupRestoresOrDefaults ==
  AtStartup =>
    /\ status = "mounted"
    /\ (storage.kind \in {"null", "text"}) => data = DefaultData
    /\ (storage.kind = "json" /\ storage.value.type = "object") =>
         LET written == JSONStringify(data).value.fields
         IN  \A name \in {"investments", "salary", "extraIncomes"} :
               ~Falsy(StoredField(name)) => written[name] = StoredField(name)

\* Once the persistence effect has run, the key holds the serialization of
\* the latest state.
KeyHoldsLatestState ==
  (status = "mounted" /\ ~AtStartup) => storage = JSONStringify(data)

\* C18: after any sequence of salary, account and extra-income mutations,
\* once the persistence effect has run the key holds the serialization of
\* the latest state, and every write to the key writes the state the
\* handler has just produced, never an earlier one.
C18_LastWriteWins ==
  /\ []KeyHoldsLatestState
  /\ [][storage' # storage => storage' = JSONStringify(data')]_vars

\* A saved state was restored, then the salary was set to 0, an account was
\* added and the extra income was edited, and the key holds the result.
C18_Witness ==
  /\ status = "mounted"
  /\ ~AtStartup
  /\ data.salary = Zero
  /\ Len(data.investments) = 2
  /\ data.investments[1].name = "Nu"
  /\ Len(data.extraIncomes) = 1
  /\ data.extraIncomes[1].description = ""
  /\ data.extraIncomes[1].date = <<2025, 1, 15>>
  /\ storage = JSONStringify(data)

----------------------------------------------------------------------------
(* The calendar dates of the projection days, checked under SpecProjection. *)

\* The extra incomes that are not dated the start date, in list order.
NotOfStartDate ==
  LET later(e) == e.date # IsoOf(startDate.date)
  IN  SelectSeq(data.extraIncomes, later)

\* Projection day k as the projector computes it when the extra incomes
\* dated the start date are left out.
WithoutStartDateExtras(k) ==
  LoopBody(k - 1, PrevTotal(k), dailyRate, startDate, data.salary, NotOfStartDate)

\* The dates of the projection days: day k is shown with the date k days
\* after the start date, which is the day after the date of day k - 1 and
\* never the start date.
DatesFollowStartDate ==
  \A k \in 1..Len(results) :
    /\ results[k].date = FormatDate(DayDate(k))
    /\ DayDate(k) = NextDay(IF k = 1 THEN startDate.date ELSE DayDate(k - 1))
    /\ DayDate(k) # startDate.date

\* C19 as stated: the calendar date of projection day k is the start date
\* plus k days, consecutive entries are consecutive calendar days, and the
\* start date is no projection day: an extra income dated the start date is
\* injected on no day, so that the projection is the one without it.
C19_StartDateIsNoProjectionDay ==
  /\ DatesFollowStartDate
  /\ \A k \in 1..Len(results) : results[k] = WithoutStartDateExtras(k)

\* C20 as stated: in every iteration the date the extra incomes are matched
\* against is the date shown for the day, and its day of the month is the
\* one that decides the salary.
C20_MatchingDateIsTheShownDate ==
  \A k \in 1..Len(results) :
    LET iso == IsoDate(CurrentDate(startDate, k - 1), startDate)
        matching == [year |-> iso[1], month |-> iso[2], day |-> iso[3]]
    IN  /\ results[k].date = FormatDate(matching)
        /\ IsSalaryDay(matching) <=> Len(SalaryLabels(k)) = 1

----------------------------------------------------------------------------
(* The lifecycle of accounts, checked under SpecAccounts. *)

\* One account with a fresh id, empty name, amount 0 and yield 0 is at the
\* end of the new list, after the old list as it was.
AppendedBlankAccount(old, new) ==
  /\ Len(new) = Len(old) + 1
  /\ \A k \in 1..Len(old) : new[k] = old[k]
  /\ \A k \in 1..Len(old) : old[k].id # new[Len(new)].id
  /\ new[Len(new)].name = ""
  /\ new[Len(new)].amount = Zero
  /\ new[Len(new)].annualYield = Zero

\* Only field f of the accounts whose id is x has changed, to value; the
\* list has its length and order.
ChangedOnlyField(old, new, x, f, value) ==
  /\ Len(new) = Len(old)
  /\ \A k \in 1..Len(old) :
       new[k] = IF old[k].id = x THEN [old[k] EXCEPT ![f] = value] ELSE old[k]

\* new is old without the accounts whose id is x, the others in order.
RECURSIVE DeletedExactly(_, _, _)
DeletedExactly(old, new, x) ==
  IF old = <<>> THEN new = <<>>
  ELSE IF Head(old).id = x THEN DeletedExactly(Tail(old), new, x)
       ELSE /\ new # <<>>
            /\ Head(new) = Head(old)
            /\ DeletedExactly(Tail(old), Tail(new), x)

\* C21: adding an account appends one account with a fresh id, empty name,
\* amount 0 and yield 0 and changes no existing account; updating field f
\* of id x changes only field f of the accounts whose id is x and keeps
\* length and order; removing id x deletes exactly the accounts whose id
\* is x and keeps the others in order.
C21_AccountLifecycle ==
  [][/\ AppendedBlankAccount(data.investments, data'.investments)
          \/ ~addInvestment
     /\ \A x \in 1..MaxAdds, f \in AccountFields :
          \A value \in FieldValues(f) :
            \/ ChangedOnlyField(data.investments, data'.investments, x, f, value)
            \/ ~UpdateInvestment(x, f, value)
     /\ \A x \in 1..MaxAdds :
          \/ DeletedExactly(data.investments, data'.investments, x)
          \/ ~RemoveInvestment(x)]_vars

\* Three accounts were added, the second was given a yield, an amount and a
\* name while the others stayed blank, and the first was removed.
C21_Witness ==
  /\ nextId = 4
  /\ Len(data.investments) = 2
  /\ data.investments[1] =
       [id |-> 2, name |-> "Nu", amount |-> Rat(1, 2), annualYield |-> Num(100)]
  /\ data.investments[2] =
       [id |-> 3, name |-> "", amount |-> Zero, annualYield |-> Zero]

----------------------------------------------------------------------------
(* The independence of the collections, checked under SpecStorage. *)

AccountsAndSummaryKept ==
  /\ data'.investments = data.investments
  /\ summary' = summary
  /\ summary' = Summary(data'.investments)

SalaryAndExtrasKept ==
  /\ data'.salary = data.salary
  /\ data'.extraIncomes = data.extraIncomes

----------------------------------------------------------------------------
(* Recomputation, checked under SpecRender. *)

\* C23: after any sequence of account, salary, extra-income and horizon
\* changes, the summary in use is the aggregator applied to the current
\* account list and the projection in use is the projector applied to the
\* current summary, salary, extra incomes and horizon (with the clock as
\* the projector last read it).
C23_MemosAreCurrent ==
  /\ summary = Summary(data.investments)
  /\ dailyProjection =
       DailyProjection(summary, data.salary, data.extraIncomes, projectionDays,
                       startDate)
  /\ Len(dailyProjection) = projectionDays

\* From the saved state with salary 10 projected over two days, the salary
\* was set to 0 and rendered, then the horizon was set to 3 and rendered:
\* the salary day 15 Jan carries no income and there is a third day.
C23_Witness ==
  /\ Len(updates) = 2
  /\ updates[1].op.name = "updateSalary" /\ updates[1].processed
  /\ updates[2].op.name = "setProjectionDays" /\ updates[2].processed
  /\ data.salary = Zero
  /\ Len(data.investments) = 1
  /\ Len(dailyProjection) = 3
  /\ dailyProjection[1].income = Num(5)
  /\ dailyProjection[2].income = Zero
  /\ dailyProjection[2].date = <<15, "ene", 2025>>
  /\ dailyProjection[3].day = 3

----------------------------------------------------------------------------
(* Batches of updates, checked under SpecRender and SpecRenderSingle. *)

\* The update the handler of u dispatches when it runs on the state shown.
Redispatched(shown, u) ==
  IF u.kind = "function" THEN FunctionalUpdate(shown, u.op)
  ELSE ValueUpdate(shown, u.op)

\* The operations of the queue applied one after another, each dispatched
\* on and rendered from the result of the previous one.
RECURSIVE OneAfterAnother(_, _)
OneAfterAnother(state, queue) ==
  IF queue = <<>> THEN state
  ELSE OneAfterAnother(ProcessQueue(state, <<Redispatched(state, Head(queue))>>),
                       Tail(queue))

\* A render has processed updates that were pending.
BatchRendered ==
  /\ Len(updates') = Len(updates)
  /\ \E k \in 1..Len(updates) : ~updates[k].processed /\ updates'[k].processed

----------------------------------------------------------------------------
(* The trajectory of the capital, checked under SpecProjection. *)

RECURSIVE SumOfIncome(_)
SumOfIncome(n) ==
  IF n = 0 THEN Zero ELSE RAdd(SumOfIncome(n - 1), results[n].income)

RECURSIVE SumOfEarned(_)
SumOfEarned(n) ==
  IF n = 0 THEN Zero ELSE RAdd(SumOfEarned(n - 1), results[n].earned)

\* C25: for every n, total[n] = totalAmount + income[1] + ... + income[n]
\* + earned[1] + ... + earned[n].
C25_ConservationOfCapital ==
  \A n \in 1..Len(results) :
    results[n].total =
      RAdd(RAdd(summary.totalAmount, SumOfIncome(n)), SumOfEarned(n))

\* Three days from 13 Jan 2025 with 4 at 100 %, salary 10 and an extra
\* income of 5 on the 14th: income 5, 10 and 0, and interest every day.
C25_Witness ==
  /\ Len(results) = 3
  /\ summary.totalAmount = Num(4)
  /\ summary.weightedAverageYield = Num(100)
  /\ results[1].income = Num(5)
  /\ results[2].income = Num(10)
  /\ results[3].income = Zero
  /\ results[3].earned # Zero
  /\ results[3].total # Num(19)

\* C26: the events list of a projection day is non-empty iff the day is a
\* salary day or at least one extra income matches the date of the
\* iteration; on a salary day the salary label is the first event, also
\* for a salary of 0; income other than 0 implies a non-empty events list.
C26_EventsIffSalaryDayOrMatch ==
  \A k \in 1..Len(results) :
    LET paid == IsPayDay(DayDate(k))
    IN  /\ results[k].events # <<>> <=> (paid \/ MatchedExtras(k) # <<>>)
        /\ paid => results[k].events[1] = <<"Quincena", FormatCurrency(data.salary)>>
        /\ results[k].income # Zero => results[k].events # <<>>

\* The salary day 15 Jan 2025 with salary 0: the label is there, the
\* income is 0; the day before carries neither.
C26_Witness ==
  /\ data.salary = Zero
  /\ data.extraIncomes = <<>>
  /\ Len(results) >= 2
  /\ results[2].date = <<15, "ene", 2025>>
  /\ results[2].events = <<<<"Quincena", 0>>>>
  /\ results[2].income = Zero
  /\ results[1].events = <<>>

----------------------------------------------------------------------------
(* Whole months inside the horizon, checked under SpecYear. *)

\* The projection days whose date is in month m of year y.
DaysOfMonth(y, m) ==
  {k \in 1..Len(dailyProjection) :
     /\ dailyProjection[k].date[2] = MonthShort[m]
     /\ dailyProjection[k].date[3] = y}

\* Month m of year y lies entirely inside the horizon: each of its days is
\* a projection day.
WholeMonthInside(y, m) ==
  Cardinality(DaysOfMonth(y, m)) = LastDayOfMonth(y, m)

RECURSIVE IncomeOfDays(_)
IncomeOfDays(days) ==
  IF days = {} THEN Zero
  ELSE LET k == CHOOSE d \in days : TRUE
       IN  RAdd(dailyProjection[k].income, IncomeOfDays(days \ {k}))

MonthsProjected == {<<y, m>> : y \in 2024..2026, m \in 1..12}

\* C27: every calendar month entirely inside the horizon has exactly two
\* salary days, the 15th and the last day, and the salary injected in it
\* is 2 x salary, the amount displayed as the monthly injection.
C27_TwoSalaryDaysPerWholeMonth ==
  (pc = "done" /\ data.extraIncomes = <<>>) =>
    \A ym \in MonthsProjected :
      WholeMonthInside(ym[1], ym[2]) =>
        LET days == DaysOfMonth(ym[1], ym[2])
            paid == {k \in days : dailyProjection[k].events # <<>>}
        IN  /\ {dailyProjection[k].date[1] : k \in paid} =
                 {15, LastDayOfMonth(ym[1], ym[2])}
            /\ Cardinality(paid) = 2
            /\ IncomeOfDays(days) = RMul(data.salary, Num(2))
            /\ FormatCurrency(IncomeOfDays(days)) =
                 FormatCurrency(RMul(data.salary, Num(2)))

\* 90 days from 13 Jan 2025 with salary 1000: February (28 days) and March
\* are entirely inside, and February receives 1000 on the 15th and the 28th.
C27_Witness ==
  /\ pc = "done"
  /\ projectionDays = 90
  /\ data.salary = Num(1000)
  /\ WholeMonthInside(2025, 2)
  /\ WholeMonthInside(2025, 3)
  /\ ~WholeMonthInside(2025, 1)
  /\ IncomeOfDays(DaysOfMonth(2025, 2)) = Num(2000)
  /\ \E k \in DaysOfMonth(2025, 2) :
       dailyProjection[k].date[1] = 28 /\ dailyProjection[k].income = Num(1000)

----------------------------------------------------------------------------
(* Extra incomes dated outside the horizon, checked under SpecProjection. *)

\* The calendar dates of the projection days: the start date plus 1 up to
\* the start date plus the horizon.  Every other date is the start date,
\* earlier than it, or later than the start date plus the horizon.
HorizonDates == {IsoOf(DayDate(k)) : k \in 1..projectionDays}

DatedInsideHorizon ==
  LET inside(e) == e.date \in HorizonDates
  IN  SelectSeq(data.extraIncomes, inside)

\* Dates around the horizon that are none of its days: the day before the
\* start date, the start date, and the two days after the last day.
DatesOutsideHorizon ==
  {IsoOf(MakeDate(startDate.date.year, startDate.date.month,
                  startDate.date.day + n)) :
     n \in {-1, 0, projectionDays + 1, projectionDays + 2}}

\* The date the projector matches the extra incomes against on day k.
MatchingDate(k) == IsoDate(CurrentDate(startDate, k - 1), startDate)

\* The date addExtraIncome gives a new extra income when the page is used
\* at the start instant.
DefaultExtraDate == IsoDate(startDate.date, startDate)

\* The default date of a new extra income is the matching date of no
\* projection day.
DefaultDateMatchesNoDay ==
  \A k \in 1..projectionDays : MatchingDate(k) # DefaultExtraDate

\* Every projection day is the one computed without the extra incomes dated
\* outside the horizon.
DaysIgnoreOutsideExtras ==
  \A k \in 1..Len(results) :
    results[k] = LoopBody(k - 1, PrevTotal(k), dailyRate, startDate,
                          data.salary, DatedInsideHorizon)

\* C28 as stated: an extra income dated the start date, earlier, or later
\* than the start date plus the horizon contributes to no projection day:
\* every day is the one computed without such extra incomes, no day's
\* matching date is a date outside the horizon, and a new extra income with
\* its default date matches no day.
C28_OutsideHorizonContributesNothing ==
  /\ DaysIgnoreOutsideExtras
  /\ \A k \in 1..projectionDays : MatchingDate(k) \notin DatesOutsideHorizon
  /\ DefaultDateMatchesNoDay

----------------------------------------------------------------------------
(* The save/load round trip, checked under SpecStorage. *)

\* Saving the present state and starting again gives the present state.
RestartRestoresState ==
  status = "mounted" =>
    Load(JSONStringify(data)) = [status |-> "mounted", data |-> data]

\* Once the first persistence effect has run the key holds JSON text, and
\* starting again from what the key holds gives the present state.
KeyRestoresState ==
  ~AtStartup =>
    /\ Parses(storage)
    /\ Load(storage) = [status |-> "mounted", data |-> data]

\* A stored value that does not parse (or no value) starts the application
\* with the defaults.
UnparseableStartsWithDefaults ==
  (AtStartup /\ ~Parses(storage)) =>
    status = "mounted" /\ data = DefaultData

\* The write that replaces a value that does not parse writes the state
\* started with, which is the defaults when nothing was edited before.
UnparseableIsOverwritten ==
  ~Parses(storage) =>
    /\ Parses(storage')
    /\ storage' = JSONStringify(data')
    /\ data' = data => storage' = JSONStringify(DefaultData)

\* C29: every state reached by editing, the one with no accounts, salary 0
\* and no extra incomes included, is restored exactly by saving it and
\* starting again; after the first render the key holds a value that
\* parses, and a stored value that does not parse is overwritten by the
\* defaults.
C29_SaveLoadRoundTrip ==
  /\ [](RestartRestoresState /\ KeyRestoresState /\ UnparseableStartsWithDefaults)
  /\ [][UnparseableIsOverwritten]_vars

\* A restored state was edited down to no accounts, salary 0 and no extra
\* incomes, and the key holds it.
C29_Witness ==
  /\ status = "mounted"
  /\ ~AtStartup
  /\ nextId = 3
  /\ data = [investments |-> <<>>, salary |-> Zero, extraIncomes |-> <<>>]
  /\ storage = JSONStringify(data)
  /\ Load(storage).data # DefaultData

----------------------------------------------------------------------------
(* The end of an analysis, checked under SpecAILive. *)

\* The awaited request has resolved or rejected.
RequestSettled == \E k \in 1..Len(requests) : requests[k].status # "pending"

\* No analysis is running and the button is enabled.
AnalysisOver ==
  /\ requests = <<>>
  /\ ~isAnalyzing
  /\ ~ButtonDisabled(rendered.isAnalyzing)

\* The step that ends an analysis leaves isAnalyzing false and a text that
\* is not empty in aiAnalysis.
EndsWithText ==
  (Len(requests') < Len(requests) \/ (isAnalyzing /\ ~isAnalyzing')) =>
    /\ ~isAnalyzing'
    /\ aiAnalysis' \notin {<<>>, <<"">>}

\* C30: every started analysis whose request resolves or rejects ends:
\* isAnalyzing is set to false again with a non-empty text in aiAnalysis,
\* and the button is enabled again.
C30_AnalysisEnds ==
  /\ RequestSettled ~> AnalysisOver
  /\ [][EndsWithText]_vars

\* A request resolved with a text, the analysis ended and was rendered.
C30_Witness ==
  /\ AnalysisOver
  /\ aiAnalysis = <<"Resumen de la estrategia">>
  /\ data.salary = Num(10)

============================================================================
